---- MODULE Spec2Model ----
(***************************************************************************)
(* Network steering (src/src/ap/net_steering.c): one steering context per  *)
(* BSS, one state machine per (context, client MAC), timers registered     *)
(* with the event loop, and TLV frames exchanged between the contexts.     *)
(*                                                                         *)
(* Every handler of the source (association, disassociation, probe         *)
(* request, the three timer callbacks, frame reception) is one action that *)
(* runs the whole handler.  The helpers of the source are operators on a   *)
(* record m = [nsb, c, out]: nsb names the context, c is the client entry  *)
(* (struct net_steering_client) and out is the sequence of calls the       *)
(* handler has made so far to its collaborators (l2_packet_send, the       *)
(* blacklist, disassociate, the BSS transition request) and of the lines   *)
(* the state machine has logged, in program order.                         *)
(***************************************************************************)
EXTENDS Integers, Sequences, FiniteSets, TLC

(***************************************************************************)
(* Bounds of the model.                                                    *)
(***************************************************************************)
\* the clock runs from 1 to MaxTime seconds
MaxTime == 2
\* frames the medium holds at once; a frame sent to a full medium is lost
MaxInFlight == 1

(***************************************************************************)
(* The deployment: two access points, each with one BSS whose BSSID is     *)
(* also its address on the distribution system, both configured with the   *)
(* same steering mode, and one client station.                             *)
(***************************************************************************)
APs == {"A", "B"}
Clients == {"K"}
ZeroMac == "00"
NULL == "NULL"
\* hapd->conf->bssid and hapd->own_addr of a context
conf_bssid(nsb) == nsb
own_addr(nsb) == nsb
\* hapd->iconf->channel
iconf_channel(nsb) == IF nsb = "A" THEN 1 ELSE 6
\* hapd->conf->r0kh_list: the mobility domain, which lists the AP itself too
\* and a peer "C" that is not running
r0kh_list(nsb) == <<"A", "B", "C">>
\* the signal strength at which each BSS hears the station: K is nearer to B
ssi_signal_at(nsb) == IF nsb = "A" THEN -40 ELSE -30

MODE_SUGGEST == 1
MODE_FORCE == 2
Modes == {MODE_SUGGEST, MODE_FORCE}

TLV_SCORE == 0
TLV_CLOSE_CLIENT == 1
TLV_CLOSED_CLIENT == 2

max_score == 65535

STEERING_states ==
  {"IDLE", "CONFIRMING", "ASSOCIATING", "ASSOCIATED", "REJECTING", "REJECTED"}
STEERING_events ==
  {"E_ASSOCIATED", "E_DISASSOCIATED", "E_PEER_IS_WORSE", "E_PEER_NOT_WORSE",
   "E_PEER_LOST_CLIENT", "E_CLOSE_CLIENT", "E_CLOSED_CLIENT", "E_TIMEOUT"}

VARIABLES
  clients,    \* nsb->clients: per context, the list of client entries
  mode,       \* nsb->mode
  bsstm,      \* per station: dot11MgmtOptionBSSTransitionActivated
  stas,       \* hostapd's station table per BSS: "none", "assoc" or "leaving"
  blacklist,  \* hostapd's blacklist per BSS
  net,        \* frames on the distribution system, not yet received
  now,        \* os_get_time, in seconds
  out,        \* the calls made and the state machine steps logged by the last handler
  nsb_list,   \* the contexts of the process, each named by its hapd, newest first
  hapd        \* per BSS, what the process holds for it outside the context list

vars == <<clients, mode, bsstm, stas, blacklist, net, now, out, nsb_list, hapd>>

(***************************************************************************)
(* What the process holds for a BSS: whether probe_req_cb is registered    *)
(* with hostapd, whether the l2_packet socket is open, whether the storage *)
(* of the context is allocated, whether net_steering_init has been called  *)
(* and what it has returned, how many timeouts the event loop holds for    *)
(* entries that have been released, how many timeouts net_steering_deinit  *)
(* has cancelled and how many entries it has released, whether a call for  *)
(* the BSS has faulted, and whether net_steering_deinit has been called.   *)
(***************************************************************************)
hapd_new ==
  [probereq_cb |-> FALSE, control |-> FALSE, nsb |-> FALSE, init |-> FALSE,
   ret |-> 0, eloop |-> 0, cancelled |-> 0, freed |-> 0, fault |-> FALSE,
   deinit |-> FALSE]

\* net_steering_init has run for both BSSes, with a mode and key holders
Started ==
  /\ nsb_list = <<"B", "A">>
  /\ hapd = [ap \in APs |->
              [hapd_new EXCEPT !.probereq_cb = TRUE, !.control = TRUE, !.nsb = TRUE,
                               !.init = TRUE]]

(***************************************************************************)
(* Event loop timeouts.  A client entry carries, per callback, the number  *)
(* of timeouts registered for it and not yet fired or cancelled:           *)
(* registering adds one, cancelling removes all that match.                *)
(***************************************************************************)
eloop_register_timeout(c, handler) ==
  [c EXCEPT !.timeouts[handler] = @ + 1]

eloop_cancel_timeout(c, handler) ==
  [c EXCEPT !.timeouts[handler] = 0]

Handlers == {"flood_score", "client_timeout", "probe_timeout"}

(***************************************************************************)
(* Client entries.                                                         *)
(***************************************************************************)
client_update_remote(m, bssid, local_t) ==
  [m EXCEPT !.c.remote_bssid = bssid, !.c.remote_time = local_t]

client_set_close_bssid(m, bssid) ==
  [m EXCEPT !.c.close_bssid = bssid]

client_clear_close_bssid(m) ==
  [m EXCEPT !.c.close_bssid = ZeroMac]

client_create(addr) ==
  [addr |-> addr, sta |-> NULL, score |-> max_score, STEERING_state |-> "IDLE",
   close_bssid |-> ZeroMac, remote_bssid |-> ZeroMac, remote_time |-> 0,
   association_time |-> 0, remote_channel |-> 0,
   timeouts |-> [h \in Handlers |-> 0]]

start_flood_timer(m) ==
  [m EXCEPT !.c = eloop_register_timeout(@, "flood_score")]

\* as stop_flood_timer, but the score is left as it is
stop_flood_timer_keeps_score(m) ==
  [m EXCEPT !.c = eloop_cancel_timeout(@, "flood_score")]

\* as stop_flood_timer, but the timeout is not cancelled
stop_flood_timer_keeps_timeout(m) ==
  [m EXCEPT !.c.score = max_score]

stop_flood_timer(m) ==
  [m EXCEPT !.c = eloop_cancel_timeout([@ EXCEPT !.score = max_score], "flood_score")]

client_start_timer(m) ==
  [m EXCEPT !.c = eloop_register_timeout(@, "client_timeout")]

\* as client_stop_timer, but the timeout is not cancelled
client_stop_timer_keeps_timeout(m) == m

\* as client_stop_timer, but nothing is cancelled: the state timeout
\* outlives the state that registered it
client_stop_timer_outlives_state(m) == m

client_stop_timer(m) ==
  [m EXCEPT !.c = eloop_cancel_timeout(@, "client_timeout")]

client_start_probe_timer(m) ==
  [m EXCEPT !.c = eloop_register_timeout(@, "probe_timeout")]

client_stop_probe_timer(m) ==
  [m EXCEPT !.c = eloop_cancel_timeout(@, "probe_timeout")]

client_supports_bss_transition(m) ==
  bsstm[m.c.sta]

\* as client_associate, but the probe timer is left running
client_associate_keeps_probe_timer(m, sta) ==
  [m EXCEPT !.c.sta = sta, !.c.addr = sta]

client_associate(m, sta) ==
  client_stop_probe_timer([m EXCEPT !.c.sta = sta, !.c.addr = sta])

client_is_associated(m) ==
  m.c.sta # NULL /\ m.c.STEERING_state = "ASSOCIATED"

abs(i) == IF i < 0 THEN -i ELSE i

compute_score(rssi) == abs(rssi) % 65536

\* the position of the first entry of the list with this address, or 0
RECURSIVE client_find_from(_, _, _)
client_find_from(list, sta, i) ==
  IF i > Len(list) THEN 0
  ELSE IF list[i].addr = sta THEN i
  ELSE client_find_from(list, sta, i + 1)

client_find(n, sta) == client_find_from(n.clients, sta, 1)

(***************************************************************************)
(* The writer.  A TLV is its type and its payload, the payload being the   *)
(* fields in the order they are put on the wire; a frame is the list of    *)
(* its TLVs.                                                               *)
(***************************************************************************)
put_score(sta, bssid, score, association_msecs) ==
  [type |-> TLV_SCORE, payload |-> <<sta, bssid, score, association_msecs>>]

put_close_client(sta, bssid, remote_bssid, channel) ==
  [type |-> TLV_CLOSE_CLIENT, payload |-> <<sta, bssid, remote_bssid, channel>>]

put_closed_client(sta, bssid) ==
  [type |-> TLV_CLOSED_CLIENT, payload |-> <<sta, bssid>>]

l2_packet_send(nsb, dst, buf) ==
  [op |-> "l2_packet_send", nsb |-> nsb, dst |-> dst, buf |-> buf]

\* the loop without the test of the own address
RECURSIVE flood_message_to_all(_, _, _)
flood_message_to_all(nsb, buf, i) ==
  IF i > Len(r0kh_list(nsb)) THEN <<>>
  ELSE <<l2_packet_send(nsb, r0kh_list(nsb)[i], buf)>>
       \o flood_message_to_all(nsb, buf, i + 1)

\* one l2_packet_send per entry of the r0kh list that is not the own address
RECURSIVE flood_message_from(_, _, _)
flood_message_from(nsb, buf, i) ==
  IF i > Len(r0kh_list(nsb)) THEN <<>>
  ELSE (IF r0kh_list(nsb)[i] # own_addr(nsb)
          THEN <<l2_packet_send(nsb, r0kh_list(nsb)[i], buf)>>
          ELSE <<>>)
       \o flood_message_from(nsb, buf, i + 1)

flood_message(m, buf) ==
  [m EXCEPT !.out = @ \o flood_message_from(m.nsb, buf, 1)]

flood_closed_client(m) ==
  client_clear_close_bssid(
    flood_message(m, <<put_closed_client(m.c.addr, conf_bssid(m.nsb))>>))

\* as flood_close_client, but the frame names the BSSID that asked this AP
\* to close the station, not the remote owner
flood_close_client_to_close_bssid(m) ==
  flood_message(m, <<put_close_client(m.c.addr, conf_bssid(m.nsb),
                                      m.c.close_bssid, iconf_channel(m.nsb))>>)

flood_close_client(m) ==
  flood_message(m, <<put_close_client(m.c.addr, conf_bssid(m.nsb),
                                      m.c.remote_bssid, iconf_channel(m.nsb))>>)

\* milliseconds since the association; the u32 the frame carries wraps after
\* 49 days, far beyond the clock of the model
associated_msecs(m) == (now - m.c.association_time) * 1000

\* the frame is built and flooded whatever the score is
do_flood_score_any_score(m) ==
  flood_message(m, <<put_score(m.c.addr, conf_bssid(m.nsb), m.c.score,
                               associated_msecs(m))>>)

do_flood_score(m) ==
  IF m.c.score = max_score THEN m
  ELSE flood_message(m, <<put_score(m.c.addr, conf_bssid(m.nsb), m.c.score,
                                    associated_msecs(m))>>)

(***************************************************************************)
(* The actuators.                                                          *)
(***************************************************************************)
wnm_send_bss_tm_req2(m, bssid, channel) ==
  [m EXCEPT !.out = Append(@, [op |-> "bss_tm_req", nsb |-> m.nsb, sta |-> m.c.sta,
                               bssid |-> bssid, channel |-> channel])]

hostapd_ctrl_iface_disassociate(m) ==
  [m EXCEPT !.out = Append(@, [op |-> "disassociate", nsb |-> m.nsb, sta |-> m.c.addr])]

\* as do_client_disassociate, but the mode is not looked at
do_client_disassociate_ignores_mode(m) ==
  IF client_is_associated(m)
    THEN IF client_supports_bss_transition(m)
           THEN wnm_send_bss_tm_req2(m, m.c.close_bssid, m.c.remote_channel)
           ELSE hostapd_ctrl_iface_disassociate(m)
    ELSE m

do_client_disassociate(m) ==
  IF client_is_associated(m)
    THEN IF mode[m.nsb] = MODE_SUGGEST \/ client_supports_bss_transition(m)
           THEN wnm_send_bss_tm_req2(m, m.c.close_bssid, m.c.remote_channel)
           ELSE hostapd_ctrl_iface_disassociate(m)
    ELSE m

do_client_blacklist_add(m) ==
  IF mode[m.nsb] = MODE_FORCE
    THEN [m EXCEPT !.out = Append(@, [op |-> "blacklist_add", nsb |-> m.nsb, sta |-> m.c.addr])]
    ELSE m

\* as do_client_blacklist_rm, but the station is never taken off the blacklist
do_client_blacklist_rm_never(m) == m

do_client_blacklist_rm(m) ==
  IF mode[m.nsb] = MODE_FORCE
    THEN [m EXCEPT !.out = Append(@, [op |-> "blacklist_rm", nsb |-> m.nsb, sta |-> m.c.addr])]
    ELSE m

(***************************************************************************)
(* The state machine.  SM_ENTER sets the state; a transition runs its      *)
(* action first and enters the new state afterwards.                       *)
(***************************************************************************)
SM_ENTER(m, tostate) == [m EXCEPT !.c.STEERING_state = tostate]

\* the line hostapd_logger writes for an event: the state it finds the entry
\* in, the event, and the state the matching transition names
sm_log(m, event, tostate) ==
  [m EXCEPT !.out = Append(@, [op |-> "sm_step", nsb |-> m.nsb, sta |-> m.c.addr,
                               from |-> m.c.STEERING_state, event |-> event,
                               to |-> tostate])]

\* as SM_TRANS_NOOP, but the new state is not entered
SM_TRANS_NOOP_stays(m, event, tostate) == sm_log(m, event, tostate)

SM_TRANS_NOOP(m, event, tostate) ==
  SM_ENTER(sm_log(m, event, tostate), tostate)

sm_STEERING_IDLE_on_E_ASSOCIATED_ASSOCIATED(m) == start_flood_timer(m)

sm_STEERING_IDLE_on_E_PEER_IS_WORSE_CONFIRMING(m) == flood_close_client(m)

sm_STEERING_IDLE_on_E_PEER_NOT_WORSE_REJECTED(m) ==
  client_start_timer(do_client_blacklist_add(m))

sm_STEERING_IDLE_on_E_CLOSE_CLIENT_REJECTED(m) ==
  client_start_timer(do_client_blacklist_add(flood_close_client(m)))

sm_STEERING_CONFIRMING_on_E_PEER_IS_WORSE_CONFIRMING(m) == flood_close_client(m)

sm_STEERING_CONFIRMING_on_E_ASSOCIATED_ASSOCIATED(m) == start_flood_timer(m)

sm_STEERING_ASSOCIATING_on_E_ASSOCIATED_ASSOCIATED(m) == start_flood_timer(m)

sm_STEERING_ASSOCIATING_on_E_PEER_IS_WORSE_ASSOCIATING(m) == flood_close_client(m)

sm_STEERING_ASSOCIATING_on_E_CLOSE_CLIENT_REJECTED(m) ==
  client_start_timer(do_client_blacklist_add(flood_closed_client(m)))

sm_STEERING_ASSOCIATED_on_E_CLOSE_CLIENT_REJECTING(m) ==
  stop_flood_timer(client_start_timer(do_client_disassociate(do_client_blacklist_add(m))))

sm_STEERING_ASSOCIATED_on_E_DISASSOCIATED_IDLE(m) == stop_flood_timer(m)

sm_STEERING_ASSOCIATED_on_E_PEER_IS_WORSE_ASSOCIATED(m) == flood_close_client(m)

sm_STEERING_REJECTING_on_E_DISASSOCIATED_REJECTED(m) ==
  client_start_timer(client_stop_timer(flood_closed_client(m)))

sm_STEERING_REJECTING_on_E_PEER_IS_WORSE_CONFIRMING(m) ==
  client_stop_timer(flood_close_client(do_client_blacklist_rm(m)))

sm_STEERING_REJECTING_on_E_PEER_LOST_CLIENT_CONFIRMING(m) ==
  client_stop_timer(do_client_blacklist_rm(m))

sm_STEERING_REJECTING_on_E_TIMEOUT_ASSOCIATING(m) ==
  client_stop_timer(do_client_blacklist_rm(m))

sm_STEERING_REJECTED_on_E_PEER_IS_WORSE_CONFIRMING(m) ==
  client_stop_timer(flood_close_client(do_client_blacklist_rm(m)))

sm_STEERING_REJECTED_on_E_PEER_LOST_CLIENT_CONFIRMING(m) ==
  client_stop_timer(flood_close_client(do_client_blacklist_rm(m)))

sm_STEERING_REJECTED_on_E_CLOSE_CLIENT_REJECTED(m) == flood_close_client(m)

sm_STEERING_REJECTED_on_E_TIMEOUT_ASSOCIATING(m) ==
  client_stop_timer(do_client_blacklist_rm(m))

\* the function SM_EVENT(STEERING, fromstate, e_event, tostate) defines
SM_EVENT(m, fromstate, e_event, tostate) ==
  LET t == <<fromstate, e_event, tostate>>
  IN CASE t = <<"IDLE", "E_ASSOCIATED", "ASSOCIATED">> ->
            sm_STEERING_IDLE_on_E_ASSOCIATED_ASSOCIATED(m)
       [] t = <<"IDLE", "E_PEER_IS_WORSE", "CONFIRMING">> ->
            sm_STEERING_IDLE_on_E_PEER_IS_WORSE_CONFIRMING(m)
       [] t = <<"IDLE", "E_PEER_NOT_WORSE", "REJECTED">> ->
            sm_STEERING_IDLE_on_E_PEER_NOT_WORSE_REJECTED(m)
       [] t = <<"IDLE", "E_CLOSE_CLIENT", "REJECTED">> ->
            sm_STEERING_IDLE_on_E_CLOSE_CLIENT_REJECTED(m)
       [] t = <<"CONFIRMING", "E_PEER_IS_WORSE", "CONFIRMING">> ->
            sm_STEERING_CONFIRMING_on_E_PEER_IS_WORSE_CONFIRMING(m)
       [] t = <<"CONFIRMING", "E_ASSOCIATED", "ASSOCIATED">> ->
            sm_STEERING_CONFIRMING_on_E_ASSOCIATED_ASSOCIATED(m)
       [] t = <<"ASSOCIATING", "E_ASSOCIATED", "ASSOCIATED">> ->
            sm_STEERING_ASSOCIATING_on_E_ASSOCIATED_ASSOCIATED(m)
       [] t = <<"ASSOCIATING", "E_PEER_IS_WORSE", "ASSOCIATING">> ->
            sm_STEERING_ASSOCIATING_on_E_PEER_IS_WORSE_ASSOCIATING(m)
       [] t = <<"ASSOCIATING", "E_CLOSE_CLIENT", "REJECTED">> ->
            sm_STEERING_ASSOCIATING_on_E_CLOSE_CLIENT_REJECTED(m)
       [] t = <<"ASSOCIATED", "E_CLOSE_CLIENT", "REJECTING">> ->
            sm_STEERING_ASSOCIATED_on_E_CLOSE_CLIENT_REJECTING(m)
       [] t = <<"ASSOCIATED", "E_DISASSOCIATED", "IDLE">> ->
            sm_STEERING_ASSOCIATED_on_E_DISASSOCIATED_IDLE(m)
       [] t = <<"ASSOCIATED", "E_PEER_IS_WORSE", "ASSOCIATED">> ->
            sm_STEERING_ASSOCIATED_on_E_PEER_IS_WORSE_ASSOCIATED(m)
       [] t = <<"REJECTING", "E_DISASSOCIATED", "REJECTED">> ->
            sm_STEERING_REJECTING_on_E_DISASSOCIATED_REJECTED(m)
       [] t = <<"REJECTING", "E_PEER_IS_WORSE", "CONFIRMING">> ->
            sm_STEERING_REJECTING_on_E_PEER_IS_WORSE_CONFIRMING(m)
       [] t = <<"REJECTING", "E_PEER_LOST_CLIENT", "CONFIRMING">> ->
            sm_STEERING_REJECTING_on_E_PEER_LOST_CLIENT_CONFIRMING(m)
       [] t = <<"REJECTING", "E_TIMEOUT", "ASSOCIATING">> ->
            sm_STEERING_REJECTING_on_E_TIMEOUT_ASSOCIATING(m)
       [] t = <<"REJECTED", "E_PEER_IS_WORSE", "CONFIRMING">> ->
            sm_STEERING_REJECTED_on_E_PEER_IS_WORSE_CONFIRMING(m)
       [] t = <<"REJECTED", "E_PEER_LOST_CLIENT", "CONFIRMING">> ->
            sm_STEERING_REJECTED_on_E_PEER_LOST_CLIENT_CONFIRMING(m)
       [] t = <<"REJECTED", "E_CLOSE_CLIENT", "REJECTED">> ->
            sm_STEERING_REJECTED_on_E_CLOSE_CLIENT_REJECTED(m)
       [] t = <<"REJECTED", "E_TIMEOUT", "ASSOCIATING">> ->
            sm_STEERING_REJECTED_on_E_TIMEOUT_ASSOCIATING(m)

\* as SM_TRANSITION, but the new state is entered before the action runs
SM_TRANSITION_enters_first(m, fromstate, e_event, tostate) ==
  SM_EVENT(SM_ENTER(sm_log(m, e_event, tostate), tostate), fromstate, e_event, tostate)

SM_TRANSITION(m, fromstate, e_event, tostate) ==
  SM_ENTER(SM_EVENT(sm_log(m, e_event, tostate), fromstate, e_event, tostate), tostate)

\* the first SM_TRANSITION or SM_TRANS_NOOP line that matches the state and
\* the event is taken; with no match the default handler leaves the entry as
\* it is
sm_STEERING_do_Event(m, event) ==
  LET on(from, e) == m.c.STEERING_state = from /\ event = e
  IN CASE on("IDLE", "E_ASSOCIATED") ->
            SM_TRANSITION(m, "IDLE", event, "ASSOCIATED")
       [] on("IDLE", "E_PEER_IS_WORSE") ->
            SM_TRANSITION(m, "IDLE", event, "CONFIRMING")
       [] on("IDLE", "E_PEER_NOT_WORSE") ->
            SM_TRANSITION(m, "IDLE", event, "REJECTED")
       [] on("IDLE", "E_PEER_LOST_CLIENT") -> SM_TRANS_NOOP(m, event, "ASSOCIATING")
       [] on("IDLE", "E_CLOSE_CLIENT") ->
            SM_TRANSITION(m, "IDLE", event, "REJECTED")
       [] on("CONFIRMING", "E_CLOSED_CLIENT") -> SM_TRANS_NOOP(m, event, "ASSOCIATING")
       [] on("CONFIRMING", "E_ASSOCIATED") ->
            SM_TRANSITION(m, "CONFIRMING", event, "ASSOCIATED")
       [] on("CONFIRMING", "E_TIMEOUT") -> SM_TRANS_NOOP(m, event, "IDLE")
       [] on("CONFIRMING", "E_PEER_IS_WORSE") ->
            SM_TRANSITION(m, "CONFIRMING", event, "CONFIRMING")
       [] on("ASSOCIATING", "E_ASSOCIATED") ->
            SM_TRANSITION(m, "ASSOCIATING", event, "ASSOCIATED")
       [] on("ASSOCIATING", "E_DISASSOCIATED") -> SM_TRANS_NOOP(m, event, "IDLE")
       [] on("ASSOCIATING", "E_PEER_IS_WORSE") ->
            SM_TRANSITION(m, "ASSOCIATING", event, "ASSOCIATING")
       [] on("ASSOCIATING", "E_CLOSE_CLIENT") ->
            SM_TRANSITION(m, "ASSOCIATING", event, "REJECTED")
       [] on("ASSOCIATED", "E_CLOSE_CLIENT") ->
            SM_TRANSITION(m, "ASSOCIATED", event, "REJECTING")
       [] on("ASSOCIATED", "E_DISASSOCIATED") ->
            SM_TRANSITION(m, "ASSOCIATED", event, "IDLE")
       [] on("ASSOCIATED", "E_PEER_IS_WORSE") ->
            SM_TRANSITION(m, "ASSOCIATED", event, "ASSOCIATED")
       [] on("REJECTING", "E_DISASSOCIATED") ->
            SM_TRANSITION(m, "REJECTING", event, "REJECTED")
       [] on("REJECTING", "E_PEER_IS_WORSE") ->
            SM_TRANSITION(m, "REJECTING", event, "CONFIRMING")
       [] on("REJECTING", "E_PEER_LOST_CLIENT") ->
            SM_TRANSITION(m, "REJECTING", event, "CONFIRMING")
       [] on("REJECTING", "E_TIMEOUT") ->
            SM_TRANSITION(m, "REJECTING", event, "ASSOCIATING")
       [] on("REJECTED", "E_PEER_IS_WORSE") ->
            SM_TRANSITION(m, "REJECTED", event, "CONFIRMING")
       [] on("REJECTED", "E_PEER_LOST_CLIENT") ->
            SM_TRANSITION(m, "REJECTED", event, "CONFIRMING")
       [] on("REJECTED", "E_CLOSE_CLIENT") ->
            SM_TRANSITION(m, "REJECTED", event, "REJECTED")
       [] on("REJECTED", "E_TIMEOUT") ->
            SM_TRANSITION(m, "REJECTED", event, "ASSOCIATING")
       [] OTHER -> sm_log(m, event, m.c.STEERING_state)

(***************************************************************************)
(* Timer callbacks, score comparison and the TLV handlers, on one entry.   *)
(***************************************************************************)
\* as client_timeout, but the entry is not given the event
client_timeout_without_event(m) == m

client_timeout(m) == sm_STEERING_do_Event(m, "E_TIMEOUT")

probe_timeout(m) == [m EXCEPT !.c.score = max_score]

flood_score(m) == start_flood_timer(do_flood_score(m))

\* as compare_scores, but an equal score counts as worse
compare_scores_not_strict(m, score) ==
  IF m.c.score <= score
    THEN sm_STEERING_do_Event(m, "E_PEER_IS_WORSE")
    ELSE sm_STEERING_do_Event(m, "E_PEER_NOT_WORSE")

\* as compare_scores, but with the comparison the other way round
compare_scores_reversed(m, score) ==
  IF m.c.score > score
    THEN sm_STEERING_do_Event(m, "E_PEER_IS_WORSE")
    ELSE sm_STEERING_do_Event(m, "E_PEER_NOT_WORSE")

compare_scores(m, score) ==
  IF m.c.score < score
    THEN sm_STEERING_do_Event(m, "E_PEER_IS_WORSE")
    ELSE sm_STEERING_do_Event(m, "E_PEER_NOT_WORSE")

\* as client_disassociate, but the event is not dispatched
client_disassociate_without_event(m) ==
  client_start_probe_timer(
    [m EXCEPT !.c.sta = NULL, !.c.remote_bssid = ZeroMac, !.c.remote_time = 0,
              !.c.association_time = 0])

client_disassociate(m) ==
  client_start_probe_timer(
    [sm_STEERING_do_Event(m, "E_DISASSOCIATED") EXCEPT
       !.c.sta = NULL, !.c.remote_bssid = ZeroMac, !.c.remote_time = 0,
       !.c.association_time = 0])

\* the local time of the sender's association: now minus the age it reports
local_t(association_msecs) == now - (association_msecs \div 1000)

\* as receive_score_client, but a SCORE of another BSSID is taken when its
\* adjusted time is not before remote_time
receive_score_client_not_strict(m, bssid, score, association_msecs) ==
  IF bssid # m.c.remote_bssid
    THEN IF m.c.remote_time <= local_t(association_msecs)
           THEN IF client_is_associated(m)
                  THEN client_update_remote(client_disassociate(m), bssid,
                                            local_t(association_msecs))
                  ELSE compare_scores(
                         client_update_remote(m, bssid, local_t(association_msecs)),
                         score)
           ELSE m
    ELSE compare_scores(m, score)

receive_score_client(m, bssid, score, association_msecs) ==
  IF bssid # m.c.remote_bssid
    THEN IF m.c.remote_time < local_t(association_msecs)
           THEN IF client_is_associated(m)
                  THEN client_update_remote(client_disassociate(m), bssid,
                                            local_t(association_msecs))
                  ELSE compare_scores(
                         client_update_remote(m, bssid, local_t(association_msecs)),
                         score)
           ELSE m
    ELSE compare_scores(m, score)

receive_close_client_client(m, bssid, ap_channel) ==
  sm_STEERING_do_Event(
    client_set_close_bssid([m EXCEPT !.c.remote_channel = ap_channel], bssid),
    "E_CLOSE_CLIENT")

receive_closed_client_client(m) == sm_STEERING_do_Event(m, "E_CLOSED_CLIENT")

(***************************************************************************)
(* Handlers on a context.  n = [nsb, clients, out] is the context while a  *)
(* handler runs: its name, its list of entries and the calls made so far.  *)
(***************************************************************************)
nsb_of(nsb) == [nsb |-> nsb, clients |-> clients[nsb], out |-> <<>>]

\* the entry at position i of the list, as the helpers take it
client_at(n, i) == [nsb |-> n.nsb, c |-> n.clients[i], out |-> n.out]

\* the list after a helper has worked on the entry at position i
client_put(n, i, m) == [n EXCEPT !.clients[i] = m.c, !.out = m.out]

\* client_create ends with dl_list_add, which puts the entry first
dl_list_add(n, c) == [n EXCEPT !.clients = <<c>> \o @]

find_or_create(n, addr) ==
  IF client_find(n, addr) = 0 THEN dl_list_add(n, client_create(addr)) ELSE n

receive_score(n, sta, bssid, score, association_msecs) ==
  LET n1 == find_or_create(n, sta)
  IN client_put(n1, client_find(n1, sta),
                receive_score_client(client_at(n1, client_find(n1, sta)),
                                     bssid, score, association_msecs))

\* as receive_close_client, but the target of the TLV is not looked at
receive_close_client_any_target(n, sta, bssid, target_bssid, ap_channel) ==
  IF client_find(n, sta) # 0
    THEN client_put(n, client_find(n, sta),
                    receive_close_client_client(client_at(n, client_find(n, sta)),
                                                bssid, ap_channel))
    ELSE n

receive_close_client(n, sta, bssid, target_bssid, ap_channel) ==
  IF conf_bssid(n.nsb) = target_bssid /\ client_find(n, sta) # 0
    THEN client_put(n, client_find(n, sta),
                    receive_close_client_client(client_at(n, client_find(n, sta)),
                                                bssid, ap_channel))
    ELSE n

receive_closed_client(n, sta, target_bssid) ==
  IF conf_bssid(n.nsb) = target_bssid /\ client_find(n, sta) # 0
    THEN client_put(n, client_find(n, sta),
                    receive_closed_client_client(client_at(n, client_find(n, sta))))
    ELSE n

\* the TLVs of a frame in order; a TLV of another type is skipped
RECURSIVE receive_from(_, _, _)
receive_from(n, buf, i) ==
  IF i > Len(buf) THEN n
  ELSE LET p == buf[i].payload
           n1 == CASE buf[i].type = TLV_SCORE ->
                        receive_score(n, p[1], p[2], p[3], p[4])
                   [] buf[i].type = TLV_CLOSE_CLIENT ->
                        receive_close_client(n, p[1], p[2], p[3], p[4])
                   [] buf[i].type = TLV_CLOSED_CLIENT ->
                        receive_closed_client(n, p[1], p[2])
                   [] OTHER -> n
       IN receive_from(n1, buf, i + 1)

receive(n, buf) == receive_from(n, buf, 1)

(***************************************************************************)
(* The frames as bytes.  wpabuf_put_tlv writes into the buffer what the    *)
(* put_ call of the same TLV writes; the parsers read the received bytes   *)
(* at an offset, as the source does with a pointer.  A hardware address is *)
(* six bytes on the wire and a name in the handlers.                       *)
(***************************************************************************)
ETH_ALEN == 6
tlv_magic == 48
tlv_version == 1

hwaddrs == {ZeroMac, "A", "B", "C", "K", "L"}

hwaddr(a) ==
  CASE a = ZeroMac -> <<0, 0, 0, 0, 0, 0>>
    [] a = "A" -> <<2, 0, 0, 0, 0, 10>>
    [] a = "B" -> <<2, 0, 0, 0, 0, 11>>
    [] a = "C" -> <<2, 0, 0, 0, 0, 12>>
    [] a = "K" -> <<2, 0, 0, 0, 1, 1>>
    [] a = "L" -> <<2, 0, 0, 0, 1, 2>>

\* the name of the address these six bytes are; "??" is any other address
os_memcpy_addr(bytes) ==
  IF \E a \in hwaddrs : hwaddr(a) = bytes
    THEN CHOOSE a \in hwaddrs : hwaddr(a) = bytes
    ELSE "??"

\* a u16 left in the byte order of a little-endian host
htons_host_order(v) == <<v % 256, (v \div 256) % 256>>

\* the bytes in memory of a u16 and of a u32 in network byte order
htons(v) == <<(v \div 256) % 256, v % 256>>
htonl(v) == <<(v \div 16777216) % 256, (v \div 65536) % 256, (v \div 256) % 256, v % 256>>
ntohs(b) == b[1] * 256 + b[2]
ntohl(b) == ((b[1] * 256 + b[2]) * 256 + b[3]) * 256 + b[4]

\* k bytes of mem from offset pos
os_memcpy(mem, pos, k) == SubSeq(mem, pos + 1, pos + k)

header_len == 6
score_len == ETH_ALEN + ETH_ALEN + 2 + 4
close_len == ETH_ALEN + ETH_ALEN + ETH_ALEN + 1
closed_len == ETH_ALEN + ETH_ALEN

parse_header(buf, len) ==
  IF len < header_len THEN [num_read |-> 0]
  ELSE [num_read |-> header_len,
        magic |-> buf[1],
        version |-> buf[2],
        packet_len |-> ntohs(os_memcpy(buf, 2, 2)),
        sn |-> ntohs(os_memcpy(buf, 4, 2))]

put_tlv_header(buf, tlv_type, tlv_len) == buf \o <<tlv_type, tlv_len>>

\* buf is the memory from the place of the TLV header on
parse_tlv_header(buf, len) ==
  IF len < 2 THEN [num_read |-> 0]
  ELSE [num_read |-> 2, tlv_type |-> buf[1], tlv_len |-> buf[2]]

\* the buffer after put_score, put_close_client or put_closed_client
wpabuf_put_tlv(buf, tlv) ==
  LET p == tlv.payload
  IN CASE tlv.type = TLV_SCORE ->
            put_tlv_header(buf, TLV_SCORE, score_len)
              \o hwaddr(p[1]) \o hwaddr(p[2]) \o htons(p[3]) \o htonl(p[4])
       [] tlv.type = TLV_CLOSE_CLIENT ->
            put_tlv_header(buf, TLV_CLOSE_CLIENT, close_len)
              \o hwaddr(p[1]) \o hwaddr(p[2]) \o hwaddr(p[3]) \o <<p[4]>>
       [] tlv.type = TLV_CLOSED_CLIENT ->
            put_tlv_header(buf, TLV_CLOSED_CLIENT, closed_len)
              \o hwaddr(p[1]) \o hwaddr(p[2])

\* buf is the memory from the place of the TLV payload on, len the length
\* the TLV header declares
parse_score(buf, len) ==
  IF len < score_len THEN [num_read |-> 0]
  ELSE [num_read |-> score_len,
        sta |-> os_memcpy_addr(os_memcpy(buf, 0, ETH_ALEN)),
        bssid |-> os_memcpy_addr(os_memcpy(buf, ETH_ALEN, ETH_ALEN)),
        score |-> ntohs(os_memcpy(buf, 2 * ETH_ALEN, 2)),
        association_msecs |-> ntohl(os_memcpy(buf, 2 * ETH_ALEN + 2, 4))]

parse_close_client(buf, len) ==
  IF len < close_len THEN [num_read |-> 0]
  ELSE [num_read |-> close_len,
        sta |-> os_memcpy_addr(os_memcpy(buf, 0, ETH_ALEN)),
        bssid |-> os_memcpy_addr(os_memcpy(buf, ETH_ALEN, ETH_ALEN)),
        target_bssid |-> os_memcpy_addr(os_memcpy(buf, 2 * ETH_ALEN, ETH_ALEN)),
        channel |-> buf[3 * ETH_ALEN + 1]]

parse_closed_client(buf, len) ==
  IF len < closed_len THEN [num_read |-> 0]
  ELSE [num_read |-> closed_len,
        sta |-> os_memcpy_addr(os_memcpy(buf, 0, ETH_ALEN)),
        target_bssid |-> os_memcpy_addr(os_memcpy(buf, ETH_ALEN, ETH_ALEN))]

header_put(buf, sn) == buf \o <<tlv_magic, tlv_version>> \o <<0, 0>> \o htons(sn)

\* the u16 after the magic and the version is overwritten
header_finalize(buf) ==
  [i \in 1..Len(buf) |->
     IF i \in {3, 4} THEN htons(Len(buf))[i - 2] ELSE buf[i]]

\* the frame a flood function hands to flood_message
wpabuf(sn, tlv) == header_finalize(wpabuf_put_tlv(header_put(<<>>, sn), tlv))

\* a line of the log of the context
hostapd_logger(n, txt) ==
  [n EXCEPT !.out = Append(@, [op |-> "hostapd_logger", nsb |-> n.nsb, txt |-> txt])]

\* the memory from offset pos on
buf_at(mem, pos) == SubSeq(mem, pos + 1, Len(mem))

\* the default case of the switch leaves the TLV where it is
skip_nothing(buf_pos, tlv_len) == buf_pos

\* the default case of the switch: buf_pos += tlv_len
skip_unknown(buf_pos, tlv_len) == buf_pos + tlv_len

\* the while loop of receive, from offset buf_pos of the memory mem
RECURSIVE receive_tlvs(_, _, _, _)
receive_tlvs(n, mem, packet_len, buf_pos) ==
  IF ~(buf_pos < packet_len) THEN n
  ELSE
    LET h == parse_tlv_header(buf_at(mem, buf_pos), packet_len - buf_pos)
        pos == buf_pos + h.num_read
    IN IF h.num_read = 0 THEN hostapd_logger(n, "Could not parse tlv header")
       ELSE CASE h.tlv_type = TLV_SCORE ->
                   LET t == parse_score(buf_at(mem, pos), h.tlv_len)
                   IN IF t.num_read = 0 THEN hostapd_logger(n, "Could not parse score")
                      ELSE receive_tlvs(
                             receive_score(n, t.sta, t.bssid, t.score, t.association_msecs),
                             mem, packet_len, pos + t.num_read)
              [] h.tlv_type = TLV_CLOSE_CLIENT ->
                   LET t == parse_close_client(buf_at(mem, pos), h.tlv_len)
                   IN IF t.num_read = 0
                        THEN hostapd_logger(n, "Could not parse close client")
                      ELSE receive_tlvs(
                             receive_close_client(n, t.sta, t.bssid, t.target_bssid, t.channel),
                             mem, packet_len, pos + t.num_read)
              [] h.tlv_type = TLV_CLOSED_CLIENT ->
                   LET t == parse_closed_client(buf_at(mem, pos), h.tlv_len)
                   IN IF t.num_read = 0
                        THEN hostapd_logger(n, "Could not parse closed client")
                      ELSE receive_tlvs(
                             receive_closed_client(n, t.sta, t.target_bssid),
                             mem, packet_len, pos + t.num_read)
              [] OTHER ->
                   receive_tlvs(hostapd_logger(n, "Dropping unknown tlv type"),
                                mem, packet_len, skip_unknown(pos, h.tlv_len))

\* the frame is taken whatever its header says
receive_buf_unchecked(n, mem, len) ==
  receive_tlvs(n, mem, ntohs(os_memcpy(mem, 2, 2)), header_len)

\* receive on the len bytes at the start of the memory mem
receive_buf(n, mem, len) ==
  LET h == parse_header(mem, len)
  IN IF h.num_read = 0 THEN hostapd_logger(n, "Dropping short message")
     ELSE IF len < h.packet_len THEN hostapd_logger(n, "Dropping short message")
     ELSE IF tlv_version # h.version \/ tlv_magic # h.magic
       THEN hostapd_logger(n, "Dropping invalid message")
     ELSE receive_tlvs(n, mem, h.packet_len, h.num_read)

\* as probe_req_cb_client, but the probe timer is started for an associated
\* station too
probe_req_cb_client_always_arms(m, ssi_signal) ==
  LET m1 == IF compute_score(ssi_signal) # m.c.score
              THEN LET m0 == [m EXCEPT !.c.score = compute_score(ssi_signal)]
                   IN IF client_is_associated(m0) THEN do_flood_score(m0) ELSE m0
              ELSE m
  IN client_start_probe_timer(client_stop_probe_timer(m1))

probe_req_cb_client(m, ssi_signal) ==
  LET m1 == IF compute_score(ssi_signal) # m.c.score
              THEN LET m0 == [m EXCEPT !.c.score = compute_score(ssi_signal)]
                   IN IF client_is_associated(m0) THEN do_flood_score(m0) ELSE m0
              ELSE m
  IN IF ~client_is_associated(m1)
       THEN client_start_probe_timer(client_stop_probe_timer(m1))
       ELSE m1

\* as probe_req_cb, but a probe to any BSSID is taken
probe_req_cb_any_bssid(n, sa, bssid, ssi_signal) ==
  LET n1 == find_or_create(n, sa)
  IN client_put(n1, client_find(n1, sa),
                probe_req_cb_client(client_at(n1, client_find(n1, sa)), ssi_signal))

probe_req_cb(n, sa, bssid, ssi_signal) ==
  IF client_find(n, sa) # 0 \/ conf_bssid(n.nsb) = bssid
    THEN LET n1 == find_or_create(n, sa)
         IN client_put(n1, client_find(n1, sa),
                       probe_req_cb_client(client_at(n1, client_find(n1, sa)), ssi_signal))
    ELSE n

\* as net_steering_disassociation, but an entry is made for an unknown station
net_steering_disassociation_creates(n, sta) ==
  LET n1 == find_or_create(n, sta)
  IN client_put(n1, client_find(n1, sta),
                client_disassociate(client_at(n1, client_find(n1, sta))))

net_steering_disassociation(n, sta) ==
  IF client_find(n, sta) # 0
    THEN client_put(n, client_find(n, sta), client_disassociate(client_at(n, client_find(n, sta))))
    ELSE n

\* the association without the first SCORE
net_steering_association_client_silent(m, sta, rssi) ==
  sm_STEERING_do_Event(
    client_associate(
      [m EXCEPT !.c.remote_time = 0, !.c.remote_bssid = ZeroMac,
                !.c.association_time = now, !.c.score = compute_score(rssi)],
      sta),
    "E_ASSOCIATED")

\* as net_steering_association_client, but the remote owner is kept
net_steering_association_client_keeps_remote(m, sta, rssi) ==
  sm_STEERING_do_Event(
    do_flood_score(
      client_associate(
        [m EXCEPT !.c.association_time = now, !.c.score = compute_score(rssi)],
        sta)),
    "E_ASSOCIATED")

net_steering_association_client(m, sta, rssi) ==
  sm_STEERING_do_Event(
    do_flood_score(
      client_associate(
        [m EXCEPT !.c.remote_time = 0, !.c.remote_bssid = ZeroMac,
                  !.c.association_time = now, !.c.score = compute_score(rssi)],
        sta)),
    "E_ASSOCIATED")

net_steering_association(n, sta, rssi) ==
  LET n1 == find_or_create(n, sta)
  IN client_put(n1, client_find(n1, sta),
                net_steering_association_client(client_at(n1, client_find(n1, sta)), sta, rssi))

\* the association when os_zalloc fails in client_create: with no entry for
\* the station the handler returns after the warning
net_steering_association_no_memory(n, sta, rssi) ==
  IF client_find(n, sta) = 0 THEN n ELSE net_steering_association(n, sta, rssi)

\* the event loop takes the timeout off its list and calls the callback
eloop_expire(n, i, handler) ==
  client_at([n EXCEPT !.clients[i].timeouts[handler] = @ - 1], i)

(***************************************************************************)
(* The collaborators.  hostapd keeps the blacklist and the station table;  *)
(* the distribution system holds the frames sent and not yet received.     *)
(***************************************************************************)
RECURSIVE blacklist_after(_, _, _)
blacklist_after(bl, calls, i) ==
  IF i > Len(calls) THEN bl
  ELSE blacklist_after(
         CASE calls[i].op = "blacklist_add" -> bl \cup {calls[i].sta}
           [] calls[i].op = "blacklist_rm" -> bl \ {calls[i].sta}
           [] OTHER -> bl,
         calls, i + 1)

\* a station told to leave (disassociate or BSS transition request)
asked_to_leave(calls) ==
  {calls[i].sta : i \in {j \in 1..Len(calls) : calls[j].op \in {"disassociate", "bss_tm_req"}}}

stas_after(st, calls) ==
  [k \in Clients |-> IF k \in asked_to_leave(calls) /\ st[k] = "assoc"
                       THEN "leaving" ELSE st[k]]

\* best-effort send: a frame sent while the medium is full, or to a peer that
\* is not running, is lost
RECURSIVE net_after(_, _, _)
net_after(medium, calls, i) ==
  IF i > Len(calls) THEN medium
  ELSE net_after(
         IF /\ calls[i].op = "l2_packet_send"
            /\ calls[i].dst \in APs
            /\ Cardinality(medium) < MaxInFlight
           THEN medium \cup {[src |-> own_addr(calls[i].nsb), dst |-> calls[i].dst,
                              buf |-> calls[i].buf]}
           ELSE medium,
         calls, i + 1)

\* a handler returns n: its context is stored and its calls take effect
Return(handler, st, medium) ==
  \E n \in {handler} :
    /\ clients' = [clients EXCEPT ![n.nsb] = n.clients]
    /\ out' = n.out
    /\ blacklist' = [blacklist EXCEPT ![n.nsb] = blacklist_after(@, n.out, 1)]
    /\ stas' = [stas EXCEPT ![n.nsb] = stas_after(st, n.out)]
    /\ net' = net_after(medium, n.out, 1)

(***************************************************************************)
(* The actions: one per callback of the source.                            *)
(***************************************************************************)
Init ==
  /\ clients = [nsb \in APs |-> <<>>]
  /\ mode \in {[nsb \in APs |-> md] : md \in Modes}
  /\ bsstm \in [Clients -> BOOLEAN]
  /\ stas = [nsb \in APs |-> [k \in Clients |-> "none"]]
  /\ blacklist = [nsb \in APs |-> {}]
  /\ net = {}
  /\ now = 1
  /\ out = <<>>
  /\ Started

\* a station associates; hostapd refuses a station on its blacklist
OnAssociate(nsb, sta) ==
  /\ sta \notin blacklist[nsb]
  /\ Return(net_steering_association(nsb_of(nsb), sta, ssi_signal_at(nsb)),
            [stas[nsb] EXCEPT ![sta] = "assoc"], net)
  /\ UNCHANGED <<mode, bsstm, now, nsb_list, hapd>>

\* a station hostapd holds as associated leaves
OnDisassociate(nsb, sta) ==
  /\ stas[nsb][sta] # "none"
  /\ Return(net_steering_disassociation(nsb_of(nsb), sta),
            [stas[nsb] EXCEPT ![sta] = "none"], net)
  /\ UNCHANGED <<mode, bsstm, now, nsb_list, hapd>>

\* a probe request from sa to bssid is heard by this BSS
OnProbe(nsb, sa, bssid) ==
  /\ Return(probe_req_cb(nsb_of(nsb), sa, bssid, ssi_signal_at(nsb)), stas[nsb], net)
  /\ UNCHANGED <<mode, bsstm, now, nsb_list, hapd>>

FloodTimer(nsb, i) ==
  /\ clients[nsb][i].timeouts["flood_score"] > 0
  /\ Return(client_put(nsb_of(nsb), i, flood_score(eloop_expire(nsb_of(nsb), i, "flood_score"))),
            stas[nsb], net)
  /\ UNCHANGED <<mode, bsstm, now, nsb_list, hapd>>

ClientTimer(nsb, i) ==
  /\ clients[nsb][i].timeouts["client_timeout"] > 0
  /\ Return(client_put(nsb_of(nsb), i,
                       client_timeout(eloop_expire(nsb_of(nsb), i, "client_timeout"))),
            stas[nsb], net)
  /\ UNCHANGED <<mode, bsstm, now, nsb_list, hapd>>

ProbeTimer(nsb, i) ==
  /\ clients[nsb][i].timeouts["probe_timeout"] > 0
  /\ Return(client_put(nsb_of(nsb), i,
                       probe_timeout(eloop_expire(nsb_of(nsb), i, "probe_timeout"))),
            stas[nsb], net)
  /\ UNCHANGED <<mode, bsstm, now, nsb_list, hapd>>

\* a frame addressed to this context is received
Receive(nsb, f) ==
  /\ f.dst = own_addr(nsb)
  /\ Return(receive(nsb_of(nsb), f.buf), stas[nsb], net \ {f})
  /\ UNCHANGED <<mode, bsstm, now, nsb_list, hapd>>

Tick ==
  /\ now < MaxTime
  /\ now' = now + 1
  /\ out' = <<>>
  /\ UNCHANGED <<clients, mode, bsstm, stas, blacklist, net, nsb_list, hapd>>

Next ==
  \/ \E nsb \in APs, sta \in Clients : OnAssociate(nsb, sta)
  \/ \E nsb \in APs, sta \in Clients : OnDisassociate(nsb, sta)
  \/ \E nsb \in APs, sa \in Clients, bssid \in APs : OnProbe(nsb, sa, bssid)
  \/ \E nsb \in APs : \E i \in 1..Len(clients[nsb]) : FloodTimer(nsb, i)
  \/ \E nsb \in APs : \E i \in 1..Len(clients[nsb]) : ClientTimer(nsb, i)
  \/ \E nsb \in APs : \E i \in 1..Len(clients[nsb]) : ProbeTimer(nsb, i)
  \/ \E nsb \in APs : \E f \in net : Receive(nsb, f)
  \/ Tick

Spec == Init /\ [][Next]_vars

(***************************************************************************)
(* The state machine alone: an entry in any of the six states, with the    *)
(* timers and the blacklist that go with the state, is given one event.    *)
(***************************************************************************)
table_clients ==
  {[client_create("K") EXCEPT
      !.STEERING_state = s, !.sta = st, !.score = sc,
      !.remote_bssid = rb, !.remote_time = IF rb = ZeroMac THEN 0 ELSE 1,
      !.close_bssid = cb, !.remote_channel = IF cb = ZeroMac THEN 0 ELSE iconf_channel(cb),
      !.association_time = IF st = NULL THEN 0 ELSE 1,
      !.timeouts = [h \in Handlers |->
                      CASE h = "flood_score" -> IF s = "ASSOCIATED" THEN 1 ELSE 0
                        [] h = "client_timeout" ->
                             IF s \in {"REJECTING", "REJECTED"} THEN 1 ELSE 0
                        [] h = "probe_timeout" ->
                             IF st = NULL /\ sc # max_score THEN 1 ELSE 0]] :
     s \in STEERING_states, st \in {NULL, "K"},
     sc \in {compute_score(ssi_signal_at("A")), max_score},
     rb \in {ZeroMac, "B"}, cb \in {ZeroMac, "B"}}

\* one entry at A, in any state, and what hostapd holds for it
InitEntry ==
  /\ \E c \in table_clients :
       /\ c.STEERING_state = "ASSOCIATED" => c.sta # NULL /\ c.score # max_score
       /\ c.STEERING_state = "IDLE" => c.sta = NULL
       /\ c.STEERING_state = "REJECTING" => c.sta # NULL
       /\ clients = [nsb \in APs |-> IF nsb = "A" THEN <<c>> ELSE <<>>]
  /\ mode \in {[nsb \in APs |-> md] : md \in Modes}
  /\ bsstm \in [Clients -> BOOLEAN]
  /\ stas = [nsb \in APs |-> [k \in Clients |->
               IF nsb = "A" /\ clients[nsb][1].sta # NULL THEN "assoc" ELSE "none"]]
  /\ blacklist = [nsb \in APs |->
               IF /\ nsb = "A"
                  /\ mode[nsb] = MODE_FORCE
                  /\ clients[nsb][1].STEERING_state \in {"REJECTING", "REJECTED"}
                 THEN {"K"} ELSE {}]
  /\ now = 1
  /\ out = <<>>
  /\ Started

InitTable == InitEntry /\ net = {}

\* SM_STEP_EVENT_RUN on the entry, once
Dispatch(nsb, i, event) ==
  /\ out = <<>>
  /\ Return(client_put(nsb_of(nsb), i, sm_STEERING_do_Event(client_at(nsb_of(nsb), i), event)),
            stas[nsb], net)
  /\ UNCHANGED <<mode, bsstm, now, nsb_list, hapd>>

NextTable == \E event \in STEERING_events : Dispatch("A", 1, event)

SpecTable == InitTable /\ [][NextTable]_vars

(***************************************************************************)
(* A roam in MODE_FORCE.  The station is associated with A, which hears it *)
(* at -40 dBm; B has heard a probe at -30 dBm.  The station leaves A when  *)
(* A tells it to and then joins B.  The roam is over long before the probe *)
(* period of B has passed, so the probe timer of B does not expire.        *)
(***************************************************************************)
InitRoam ==
  /\ clients =
       [nsb \in APs |->
          IF nsb = "A"
            THEN <<[client_create("K") EXCEPT
                      !.sta = "K", !.STEERING_state = "ASSOCIATED",
                      !.score = compute_score(ssi_signal_at("A")),
                      !.association_time = 1,
                      !.timeouts["flood_score"] = 1]>>
            ELSE <<[client_create("K") EXCEPT
                      !.score = compute_score(ssi_signal_at("B")),
                      !.timeouts["probe_timeout"] = 1]>>]
  /\ mode = [nsb \in APs |-> MODE_FORCE]
  /\ bsstm \in [Clients -> BOOLEAN]
  /\ stas = [nsb \in APs |-> [k \in Clients |-> IF nsb = "A" THEN "assoc" ELSE "none"]]
  /\ blacklist = [nsb \in APs |-> {}]
  /\ net = {}
  /\ now = 1
  /\ out = <<>>
  /\ Started

\* the station does what A has asked for
Leave == stas["A"]["K"] = "leaving" /\ OnDisassociate("A", "K")

\* the station, no longer with A, associates with B
Join == stas["A"]["K"] = "none" /\ stas["B"]["K"] = "none" /\ OnAssociate("B", "K")

Deliver(nsb) == \E f \in net : Receive(nsb, f)

NextRoam ==
  \/ Leave
  \/ Join
  \/ \E nsb \in APs : FloodTimer(nsb, 1)
  \/ \E nsb \in APs : ClientTimer(nsb, 1)
  \/ ProbeTimer("A", 1)
  \/ \E nsb \in APs : Deliver(nsb)
  \/ Tick

SpecRoam ==
  /\ InitRoam
  /\ [][NextRoam]_vars
  /\ WF_vars(Leave)
  /\ WF_vars(Join)
  /\ WF_vars(FloodTimer("A", 1))
  /\ \A nsb \in APs : WF_vars(Deliver(nsb))

(***************************************************************************)
(* One SCORE frame from B arrives at A, which has an entry for K in any    *)
(* state.  The frame is for K or for a station L that A has not seen, and  *)
(* carries a score below, equal to or above the one A has, or max_score.   *)
(***************************************************************************)
score_frames ==
  {[src |-> "B", dst |-> "A", buf |-> <<put_score(sta, "B", score, msecs)>>] :
     sta \in {"K", "L"},
     score \in {compute_score(-30), compute_score(-40), compute_score(-50), max_score},
     msecs \in {0, 1000}}

InitScore == InitEntry /\ \E f \in score_frames : net = {f}

NextScore == \E f \in net : Receive("A", f)

SpecScore == InitScore /\ [][NextScore]_vars

(***************************************************************************)
(* After the SCORE frame no further input arrives: the station may leave,  *)
(* frames are delivered and timeouts fire.  The event loop does not hold   *)
(* back a state timeout: REJECTING and REJECTED register it, and only the  *)
(* step from REJECTING to REJECTED registers it anew.                      *)
(***************************************************************************)
\* the event loop runs the state timeout of an entry that has one registered
ClientTimers(nsb) == \E i \in 1..Len(clients[nsb]) : ClientTimer(nsb, i)

FloodTimers(nsb) == \E i \in 1..Len(clients[nsb]) : FloodTimer(nsb, i)

NextTimers ==
  \/ \E nsb \in APs : Deliver(nsb)
  \/ \E nsb \in APs : ClientTimers(nsb)
  \/ \E nsb \in APs : FloodTimers(nsb)
  \/ \E nsb \in APs : OnDisassociate(nsb, "K")

SpecTimers ==
  /\ InitScore
  /\ [][NextTimers]_vars
  /\ \A nsb \in APs : WF_vars(ClientTimers(nsb))

(***************************************************************************)
(* The frames as bytes between the contexts.  B, or any station of the     *)
(* distribution system, sends A a frame: one the writer builds, or bytes   *)
(* that no writer builds.  The receiver reads past the end of the received *)
(* bytes where the source does; what lies there is not known.              *)
(***************************************************************************)
\* frame_sn of the sender
SNs == {0, 258}

\* the bytes that follow the received frame in the memory of the receiver
Tails == {[i \in 1..20 |-> 0], [i \in 1..20 |-> IF i % 6 = 5 THEN 1 ELSE IF i % 6 = 0 THEN 2 ELSE 0]}

raw_header(magic, version, packet_len, sn) ==
  <<magic, version>> \o htons(packet_len) \o htons(sn)

\* a frame of magic, version and body whose length field is right
raw_frame(magic, version, body) ==
  raw_header(magic, version, header_len + Len(body), 0) \o body

tlv_S == wpabuf_put_tlv(<<>>, put_score("K", "B", compute_score(-50), 1000))
tlv_C == wpabuf_put_tlv(<<>>, put_close_client("K", "B", "A", iconf_channel("B")))
tlv_D == wpabuf_put_tlv(<<>>, put_closed_client("K", "A"))
tlv_L == wpabuf_put_tlv(<<>>, put_score("L", "B", compute_score(-30), 0))
\* TLVs of types the switch does not know; the last one holds a whole SCORE
tlv_unknown == {<<9, 3, 170, 187, 204>>, <<3, 0>>, <<4, 20>> \o tlv_L}
\* TLVs cut short: half a header, and lengths below those of the types
tlv_short ==
  {<<TLV_SCORE>>,
   <<TLV_SCORE, score_len - 1>> \o SubSeq(tlv_S, 3, score_len + 1),
   <<TLV_CLOSE_CLIENT, 0>>,
   <<TLV_CLOSED_CLIENT, closed_len - 1>> \o SubSeq(tlv_D, 3, closed_len + 1)}

\* TLVs whose length field is that of the type and whose payload is cut by
\* the end of the frame: a SCORE without its score and time, a CLOSED_CLIENT
\* without its target
tlv_over ==
  {<<TLV_SCORE, score_len>> \o SubSeq(tlv_S, 3, 2 + 2 * ETH_ALEN),
   <<TLV_CLOSED_CLIENT, closed_len>> \o SubSeq(tlv_D, 3, 2 + ETH_ALEN)}

rx_frames ==
  \* faults of the header
  {raw_frame(magic, version, body) :
     magic \in {tlv_magic, 49, 0}, version \in {0, tlv_version, 2, 255},
     body \in {tlv_S, tlv_C}}
  \cup {raw_header(tlv_magic, tlv_version, header_len + Len(tlv_S) + more, 7) \o tlv_S :
          more \in {1, 300}}
  \cup {SubSeq(raw_frame(tlv_magic, tlv_version, tlv_S), 1, len) : len \in {0, 1, 5}}
  \* padding after the frame
  \cup {raw_frame(tlv_magic, tlv_version, tlv_S) \o <<0, 0, 0>>}
  \* no TLV, two and three TLVs
  \cup {raw_frame(tlv_magic, tlv_version, body) :
          body \in {<<>>, tlv_S \o tlv_C, tlv_L \o tlv_S \o tlv_D}}
  \* a TLV cut short, alone and after other TLVs
  \cup {raw_frame(tlv_magic, tlv_version, body \o short) :
          body \in {<<>>, tlv_S, tlv_L \o tlv_C}, short \in tlv_short}
  \* a TLV that runs past the end of the frame, alone and after another TLV
  \cup {raw_frame(tlv_magic, tlv_version, body \o over) :
          body \in {<<>>, tlv_L}, over \in tlv_over}
  \* a TLV of unknown type, alone and between other TLVs
  \cup {raw_frame(tlv_magic, tlv_version, before \o unknown \o after) :
          before \in {<<>>, tlv_S, tlv_L}, unknown \in tlv_unknown,
          after \in {<<>>, tlv_C, tlv_S}}

InitCodec == InitTable

\* do_flood_score of B: the frame with frame_sn sn
WriteScore(sta, score, association_msecs, sn) ==
  /\ net = {} /\ out = <<>>
  /\ net' = {[src |-> "B", dst |-> "A",
              buf |-> wpabuf(sn, put_score(sta, conf_bssid("B"), score, association_msecs))]}
  /\ UNCHANGED <<clients, mode, bsstm, stas, blacklist, now, out, nsb_list, hapd>>

\* flood_close_client of B
WriteCloseClient(sta, remote_bssid, sn) ==
  /\ net = {} /\ out = <<>>
  /\ net' = {[src |-> "B", dst |-> "A",
              buf |-> wpabuf(sn, put_close_client(sta, conf_bssid("B"), remote_bssid,
                                                  iconf_channel("B")))]}
  /\ UNCHANGED <<clients, mode, bsstm, stas, blacklist, now, out, nsb_list, hapd>>

\* flood_closed_client of B
WriteClosedClient(sta, sn) ==
  /\ net = {} /\ out = <<>>
  /\ net' = {[src |-> "B", dst |-> "A",
              buf |-> wpabuf(sn, put_closed_client(sta, conf_bssid("B")))]}
  /\ UNCHANGED <<clients, mode, bsstm, stas, blacklist, now, out, nsb_list, hapd>>

\* bytes from C, a station that is not a writer of this protocol
Forge(buf) ==
  /\ net = {} /\ out = <<>>
  /\ net' = {[src |-> "C", dst |-> "A", buf |-> buf]}
  /\ UNCHANGED <<clients, mode, bsstm, stas, blacklist, now, out, nsb_list, hapd>>

\* the frames of the calls of l2_packet_send, as the writer builds them
RECURSIVE wire_after(_, _, _, _)
wire_after(medium, calls, i, sn) ==
  IF i > Len(calls) THEN medium
  ELSE wire_after(
         IF /\ calls[i].op = "l2_packet_send"
            /\ calls[i].dst \in APs
            /\ Cardinality(medium) < MaxInFlight
           THEN medium \cup {[src |-> own_addr(calls[i].nsb), dst |-> calls[i].dst,
                              buf |-> wpabuf(sn, calls[i].buf[1])]}
           ELSE medium,
         calls, i + 1, sn)

\* receive is called with the bytes of f; tail follows them in memory
ReceiveBuf(nsb, f, tail, sn) ==
  /\ f.dst = own_addr(nsb)
  /\ \E n \in {receive_buf(nsb_of(nsb), f.buf \o tail, Len(f.buf))} :
       /\ clients' = [clients EXCEPT ![n.nsb] = n.clients]
       /\ out' = n.out
       /\ blacklist' = [blacklist EXCEPT ![n.nsb] = blacklist_after(@, n.out, 1)]
       /\ stas' = [stas EXCEPT ![n.nsb] = stas_after(stas[nsb], n.out)]
       /\ net' = wire_after(net \ {f}, n.out, 1, sn)
  /\ UNCHANGED <<mode, bsstm, now, nsb_list, hapd>>

NextCodec ==
  \/ \E sta \in {"K", "L"}, score \in {compute_score(-30), compute_score(-300)},
        association_msecs \in {0, 1000, 16909060}, sn \in SNs :
       WriteScore(sta, score, association_msecs, sn)
  \/ \E sta \in {"K", "L"}, remote_bssid \in {ZeroMac, "A"}, sn \in SNs :
       WriteCloseClient(sta, remote_bssid, sn)
  \/ \E sta \in {"K", "L"}, sn \in SNs : WriteClosedClient(sta, sn)
  \/ \E buf \in rx_frames : Forge(buf)
  \/ \E nsb \in APs, f \in net, tail \in Tails, sn \in SNs : ReceiveBuf(nsb, f, tail, sn)

SpecCodec == InitCodec /\ [][NextCodec]_vars

(***************************************************************************)
(* Stations that come and go.  An entry at A in any state; hostapd reports *)
(* associations, among them some for which no entry can be allocated, and  *)
(* disassociations.                                                        *)
(***************************************************************************)
OnAssociateNoMemory(nsb, sta) ==
  /\ sta \notin blacklist[nsb]
  /\ Return(net_steering_association_no_memory(nsb_of(nsb), sta, ssi_signal_at(nsb)),
            [stas[nsb] EXCEPT ![sta] = "assoc"], net)
  /\ UNCHANGED <<mode, bsstm, now, nsb_list, hapd>>

NextLeave ==
  \/ \E nsb \in APs, sta \in Clients : OnAssociate(nsb, sta)
  \/ \E nsb \in APs, sta \in Clients : OnAssociateNoMemory(nsb, sta)
  \/ \E nsb \in APs, sta \in Clients : OnDisassociate(nsb, sta)

SpecLeave == InitTable /\ [][NextLeave]_vars

(***************************************************************************)
(* Bring-up and teardown.  The two BSSes belong to one process and share   *)
(* nsb_list.  hostapd calls net_steering_init once for a BSS, with the     *)
(* configuration of the BSS, and net_steering_deinit once when the BSS     *)
(* goes down; between the two it reports associations and disassociations  *)
(* of the BSS whether or not a context was registered for it.              *)
(***************************************************************************)
MODE_OFF == 0
\* the build has fast transition, whose key holders are the peers
CONFIG_IEEE80211R == TRUE
\* hapd->conf->net_steeering_mode: not set, or the string of the file
net_steeering_modes == {NULL, "off", "suggest", "force"}
\* what reading through a pointer that is NULL, or that points at no
\* context, comes to: the process faults, or the call goes on
Undefined == {"fault", "goes on"}

\* the process as the functions of bring-up and teardown see it
process == [nsb_list |-> nsb_list, hapd |-> hapd, mode |-> mode, clients |-> clients]

returns(p, ap, ret) == [p EXCEPT !.hapd[ap].init = TRUE, !.hapd[ap].ret = ret]

\* as client_delete, but the timeouts stay registered
client_delete_keeps_timeouts(m) == m

\* the entry at the moment it is unlinked and released
client_delete(m) ==
  client_stop_probe_timer(client_stop_timer(stop_flood_timer(m)))

\* the timeouts registered for an entry
timeouts_of(c) ==
  c.timeouts["flood_score"] + c.timeouts["client_timeout"] + c.timeouts["probe_timeout"]

RECURSIVE timeouts_left(_, _)
\* the loop over nsb->clients: the timeouts the event loop still holds for
\* the entries from position i on, once each has gone through client_delete
timeouts_left(n, i) ==
  IF i > Len(n.clients) THEN 0
  ELSE timeouts_of(client_delete(client_at(n, i)).c) + timeouts_left(n, i + 1)

RECURSIVE timeouts_held(_, _)
\* the timeouts registered for the entries from position i on
timeouts_held(n, i) ==
  IF i > Len(n.clients) THEN 0
  ELSE timeouts_of(n.clients[i]) + timeouts_held(n, i + 1)

RECURSIVE dl_list_del(_, _)
dl_list_del(list, item) ==
  IF list = <<>> THEN <<>>
  ELSE IF Head(list) = item THEN Tail(list)
  ELSE <<Head(list)>> \o dl_list_del(Tail(list), item)

in_list(list, item) == \E i \in 1..Len(list) : list[i] = item

net_steering_init(p, ap, net_steeering_mode, r0kh_list_set, os_zalloc_ok, l2_packet_init_ok, null_deref) ==
  IF net_steeering_mode = NULL THEN returns(p, ap, 0)
  ELSE IF net_steeering_mode = "off" THEN returns(p, ap, 0)
  ELSE IF ~CONFIG_IEEE80211R THEN returns(p, ap, -1)
  ELSE IF ~r0kh_list_set THEN returns(p, ap, 0)
  ELSE IF ~os_zalloc_ok THEN returns(p, ap, -1)
  ELSE IF ~l2_packet_init_ok
    \* nsb->hapd is NULL here, and the message reads nsb->hapd->conf
    THEN IF null_deref = "fault"
           THEN [p EXCEPT !.hapd[ap].init = TRUE, !.hapd[ap].fault = TRUE,
                         !.hapd[ap].nsb = TRUE]
           ELSE returns(p, ap, -1)
  ELSE [p EXCEPT !.nsb_list = <<ap>> \o @,
                 !.clients[ap] = <<>>,
                 !.hapd[ap].nsb = TRUE,
                 !.hapd[ap].control = TRUE,
                 !.hapd[ap].probereq_cb = TRUE,
                 !.hapd[ap].init = TRUE,
                 !.hapd[ap].ret = 0,
                 !.mode[ap] = IF net_steeering_mode = "suggest" THEN MODE_SUGGEST
                              ELSE MODE_FORCE]

net_steering_deinit(p, ap) ==
  IF p.nsb_list = <<>> THEN p
  ELSE IF in_list(p.nsb_list, ap)
    THEN [p EXCEPT !.hapd[ap].control = FALSE,
                   !.hapd[ap].eloop =
                      @ + timeouts_left([nsb |-> ap, clients |-> p.clients[ap], out |-> <<>>], 1),
                   !.hapd[ap].cancelled =
                      timeouts_held([clients |-> p.clients[ap]], 1)
                        - timeouts_left([nsb |-> ap, clients |-> p.clients[ap], out |-> <<>>], 1),
                   !.hapd[ap].freed = Len(p.clients[ap]),
                   !.clients[ap] = <<>>,
                   !.nsb_list = dl_list_del(@, ap),
                   !.hapd[ap].nsb = FALSE,
                   !.mode[ap] = MODE_OFF]
  ELSE p

\* the search for the context of a BSS that begins net_steering_association
\* and net_steering_disassociation: the list is empty, or the context is
\* found, or the loop ends with nsb at the head of the list, which is not
\* NULL and is no context
context_of(list, ap) ==
  IF list = <<>> THEN "empty"
  ELSE IF in_list(list, ap) THEN "found"
  ELSE "list head"

no_fault == \A ap \in APs : ~hapd[ap].fault

InitBoot ==
  /\ clients = [nsb \in APs |-> <<>>]
  /\ mode = [nsb \in APs |-> MODE_OFF]
  /\ bsstm = [k \in Clients |-> FALSE]
  /\ stas = [nsb \in APs |-> [k \in Clients |-> "none"]]
  /\ blacklist = [nsb \in APs |-> {}]
  /\ net = {}
  /\ now = 1
  /\ out = <<>>
  /\ nsb_list = <<>>
  /\ hapd = [ap \in APs |-> hapd_new]

NetSteeringInit(ap, net_steeering_mode, r0kh_list_set, os_zalloc_ok, l2_packet_init_ok, null_deref) ==
  /\ no_fault
  /\ ~hapd[ap].init
  /\ \E p \in {net_steering_init(process, ap, net_steeering_mode, r0kh_list_set,
                                  os_zalloc_ok, l2_packet_init_ok, null_deref)} :
       /\ nsb_list' = p.nsb_list
       /\ hapd' = p.hapd
       /\ mode' = p.mode
       /\ clients' = p.clients
  /\ out' = <<>>
  /\ UNCHANGED <<bsstm, stas, blacklist, net, now>>

NetSteeringDeinit(ap) ==
  /\ no_fault
  /\ hapd[ap].init /\ ~hapd[ap].deinit
  /\ \E p \in {net_steering_deinit(process, ap)} :
       /\ nsb_list' = p.nsb_list
       /\ hapd' = [p.hapd EXCEPT ![ap].deinit = TRUE]
       /\ mode' = p.mode
       /\ clients' = p.clients
  /\ stas' = [stas EXCEPT ![ap] = [k \in Clients |-> "none"]]
  /\ out' = <<>>
  /\ UNCHANGED <<bsstm, blacklist, net, now>>

\* a call of hostapd for a BSS whose context the search does not find
NoContext(ap, st, undefined) ==
  /\ context_of(nsb_list, ap) # "found"
  /\ hapd' = IF context_of(nsb_list, ap) = "list head" /\ undefined = "fault"
              THEN [hapd EXCEPT ![ap].fault = TRUE] ELSE hapd
  /\ stas' = [stas EXCEPT ![ap] = st]
  /\ out' = <<>>
  /\ UNCHANGED <<clients, mode, bsstm, blacklist, net, now, nsb_list>>

\* hostapd reports an association of a BSS that is up
HapdAssociate(ap, sta, undefined) ==
  /\ no_fault
  /\ hapd[ap].init /\ ~hapd[ap].deinit
  /\ \/ context_of(nsb_list, ap) = "found" /\ OnAssociate(ap, sta)
     \/ NoContext(ap, [stas[ap] EXCEPT ![sta] = "assoc"], undefined)

HapdDisassociate(ap, sta, undefined) ==
  /\ no_fault
  /\ hapd[ap].init /\ ~hapd[ap].deinit
  /\ stas[ap][sta] # "none"
  /\ \/ context_of(nsb_list, ap) = "found" /\ OnDisassociate(ap, sta)
     \/ NoContext(ap, [stas[ap] EXCEPT ![sta] = "none"], undefined)

\* hostapd calls the probe callbacks it has registered for the BSS
HapdProbe(ap, sa, bssid) ==
  /\ no_fault
  /\ hapd[ap].probereq_cb /\ ~hapd[ap].deinit
  /\ OnProbe(ap, sa, bssid)

NextBoot ==
  \/ \E ap \in APs, net_steeering_mode \in net_steeering_modes,
        r0kh_list_set, os_zalloc_ok, l2_packet_init_ok \in BOOLEAN,
        null_deref \in Undefined :
       NetSteeringInit(ap, net_steeering_mode, r0kh_list_set, os_zalloc_ok,
                       l2_packet_init_ok, null_deref)
  \/ \E ap \in APs : NetSteeringDeinit(ap)
  \/ \E ap \in APs, sta \in Clients, undefined \in Undefined :
       HapdAssociate(ap, sta, undefined)
  \/ \E ap \in APs, sta \in Clients, undefined \in Undefined :
       HapdDisassociate(ap, sta, undefined)
  \/ \E ap \in APs, sa \in Clients, bssid \in APs : HapdProbe(ap, sa, bssid)
  \/ \E nsb \in APs : \E i \in 1..Len(clients[nsb]) : no_fault /\ FloodTimer(nsb, i)
  \/ \E nsb \in APs : \E f \in net : no_fault /\ in_list(nsb_list, nsb) /\ Receive(nsb, f)

SpecBoot == InitBoot /\ [][NextBoot]_vars

(***************************************************************************)
(* Properties.                                                             *)
(***************************************************************************)
Entries(nsb) == {clients[nsb][i] : i \in 1..Len(clients[nsb])}

armed(c, handler) == c.timeouts[handler] > 0

\* the calls of the last handler with one of these names, in order
calls(ops) == SelectSeq(out, LAMBDA e : e.op \in ops)

\* the transition table of the specification: the new state, or the old one
\* where the cell is blank
TableCell(s, e) ==
  CASE s = "IDLE" /\ e = "E_ASSOCIATED" -> "ASSOCIATED"
    [] s = "IDLE" /\ e = "E_PEER_IS_WORSE" -> "CONFIRMING"
    [] s = "IDLE" /\ e = "E_PEER_NOT_WORSE" -> "REJECTED"
    [] s = "IDLE" /\ e = "E_PEER_LOST_CLIENT" -> "ASSOCIATING"
    [] s = "IDLE" /\ e = "E_CLOSE_CLIENT" -> "REJECTED"
    [] s = "CONFIRMING" /\ e = "E_ASSOCIATED" -> "ASSOCIATED"
    [] s = "CONFIRMING" /\ e = "E_PEER_IS_WORSE" -> "CONFIRMING"
    [] s = "CONFIRMING" /\ e = "E_CLOSED_CLIENT" -> "ASSOCIATING"
    [] s = "CONFIRMING" /\ e = "E_TIMEOUT" -> "IDLE"
    [] s = "ASSOCIATING" /\ e = "E_ASSOCIATED" -> "ASSOCIATED"
    [] s = "ASSOCIATING" /\ e = "E_DISASSOCIATED" -> "IDLE"
    [] s = "ASSOCIATING" /\ e = "E_PEER_IS_WORSE" -> "ASSOCIATING"
    [] s = "ASSOCIATING" /\ e = "E_CLOSE_CLIENT" -> "REJECTED"
    [] s = "ASSOCIATED" /\ e = "E_DISASSOCIATED" -> "IDLE"
    [] s = "ASSOCIATED" /\ e = "E_PEER_IS_WORSE" -> "ASSOCIATED"
    [] s = "ASSOCIATED" /\ e = "E_CLOSE_CLIENT" -> "REJECTING"
    [] s = "REJECTING" /\ e = "E_DISASSOCIATED" -> "REJECTED"
    [] s = "REJECTING" /\ e = "E_PEER_IS_WORSE" -> "CONFIRMING"
    [] s = "REJECTING" /\ e = "E_PEER_LOST_CLIENT" -> "CONFIRMING"
    [] s = "REJECTING" /\ e = "E_CLOSE_CLIENT" -> "REJECTING"
    [] s = "REJECTING" /\ e = "E_TIMEOUT" -> "ASSOCIATING"
    [] s = "REJECTED" /\ e = "E_PEER_IS_WORSE" -> "CONFIRMING"
    [] s = "REJECTED" /\ e = "E_PEER_LOST_CLIENT" -> "CONFIRMING"
    [] s = "REJECTED" /\ e = "E_CLOSE_CLIENT" -> "REJECTED"
    [] s = "REJECTED" /\ e = "E_TIMEOUT" -> "ASSOCIATING"
    [] OTHER -> s

C4_FloodTimerIffAssociated ==
  \A nsb \in APs : \A c \in Entries(nsb) :
    armed(c, "flood_score") <=> c.STEERING_state = "ASSOCIATED"

\* one AP floods the score of its associated station while the other, told
\* to close it, has left ASSOCIATED and cancelled its flood timer
C4_Witness ==
  /\ \E nsb \in APs : \E c \in Entries(nsb) :
       c.STEERING_state = "ASSOCIATED" /\ armed(c, "flood_score")
  /\ \E nsb \in APs : \E c \in Entries(nsb) :
       c.STEERING_state = "REJECTING" /\ ~armed(c, "flood_score")

\* C5: between handlers, the state timeout of every entry is armed if and
\* only if the entry is REJECTING or REJECTED.
C5_ClientTimerIffRejecting ==
  \A nsb \in APs : \A c \in Entries(nsb) :
    armed(c, "client_timeout") <=> c.STEERING_state \in {"REJECTING", "REJECTED"}

\* an entry has come back from REJECTED on a worse peer score, timer cancelled
C5_Witness ==
  \E i \in 1..Len(out) :
    /\ out[i].op = "sm_step"
    /\ out[i].from = "REJECTED"
    /\ out[i].to = "CONFIRMING"
    /\ \E c \in Entries(out[i].nsb) :
         c.STEERING_state = "CONFIRMING" /\ ~armed(c, "client_timeout")

\* C6 as stated: between handlers, the probe timer of every entry is armed
\* if and only if the entry has no station.
C6_ProbeTimerIffNoSta ==
  \A nsb \in APs : \A c \in Entries(nsb) :
    armed(c, "probe_timeout") <=> c.sta = NULL

\* C6: between handlers, the probe timer is armed only on entries that are
\* not ASSOCIATED, and it is armed on every entry that has no station and
\* has a score other than max_score.
C6_ProbeTimerAmended ==
  \A nsb \in APs : \A c \in Entries(nsb) :
    /\ armed(c, "probe_timeout") => c.STEERING_state # "ASSOCIATED"
    /\ c.sta = NULL /\ c.score # max_score => armed(c, "probe_timeout")

\* a probe has been heard from a station that is being rejected: the timer
\* runs although the station is still there; and the other AP has an entry
\* without a station and without a timer
C6_Witness ==
  /\ \E nsb \in APs : \E c \in Entries(nsb) :
       c.STEERING_state = "REJECTING" /\ c.sta # NULL /\ armed(c, "probe_timeout")
  /\ \E nsb \in APs : \E c \in Entries(nsb) :
       c.sta = NULL /\ ~armed(c, "probe_timeout")

\* C7: an entry that is ASSOCIATED has its station.
C7_AssociatedHasSta ==
  \A nsb \in APs : \A c \in Entries(nsb) :
    c.STEERING_state = "ASSOCIATED" => c.sta # NULL

\* an entry that was ASSOCIATED has lost its station and is IDLE
C7_Witness ==
  /\ \E i \in 1..Len(out) :
       /\ out[i].op = "sm_step"
       /\ out[i].from = "ASSOCIATED"
       /\ out[i].event = "E_DISASSOCIATED"
       /\ \E c \in Entries(out[i].nsb) : c.sta = NULL /\ c.STEERING_state = "IDLE"
  /\ \E nsb \in APs : \E c \in Entries(nsb) : c.STEERING_state = "ASSOCIATED"

\* C8 as stated: an entry that has its station is ASSOCIATED or REJECTING.
C8_StaOnlyAssociatedOrRejecting ==
  \A nsb \in APs : \A c \in Entries(nsb) :
    c.sta # NULL => c.STEERING_state \in {"ASSOCIATED", "REJECTING"}

\* C9: a station is on the blacklist of an AP exactly when the AP is in
\* MODE_FORCE and its entry is REJECTING or REJECTED, and no handler of an
\* AP in another mode calls hostapd_blacklist_add or hostapd_blacklist_rm.
C9_BlacklistOnlyRejectingForce ==
  /\ \A nsb \in APs : \A k \in Clients :
       k \in blacklist[nsb] <=>
         /\ mode[nsb] = MODE_FORCE
         /\ \E c \in Entries(nsb) :
              c.addr = k /\ c.STEERING_state \in {"REJECTING", "REJECTED"}
  /\ \A i \in 1..Len(out) :
       out[i].op \in {"blacklist_add", "blacklist_rm"} => mode[out[i].nsb] = MODE_FORCE

\* a station that was blacklisted has been taken off the blacklist
C9_Witness ==
  \E i \in 1..Len(out) :
    /\ out[i].op = "blacklist_rm"
    /\ mode[out[i].nsb] = MODE_FORCE
    /\ out[i].sta \notin blacklist[out[i].nsb]
    /\ \E c \in Entries(out[i].nsb) :
         c.addr = out[i].sta /\ c.STEERING_state \notin {"REJECTING", "REJECTED"}

\* the state machine steps, from a state on an event, among the records o
\* of a handler
steps(o, from, event) ==
  {e \in {o[i] : i \in 1..Len(o)} :
     e.op = "sm_step" /\ e.from = from /\ e.event = event}

\* those of the handler that runs in the step
stepped(from, event) == steps(out', from, event)

\* C10: in MODE_SUGGEST, the handler that gives E_CLOSE_CLIENT to an
\* ASSOCIATED entry calls neither hostapd_blacklist_add nor the raw
\* disassociate; it calls wnm_send_bss_tm_req2 once, for the station, with
\* the BSSID and the channel of the CLOSE_CLIENT it has received.
C10_SuggestCloseClient ==
  [][\A e \in stepped("ASSOCIATED", "E_CLOSE_CLIENT") :
       mode[e.nsb] = MODE_SUGGEST =>
         \A f \in net \ net' :
           calls({"blacklist_add", "disassociate", "bss_tm_req"})' =
             <<[op |-> "bss_tm_req", nsb |-> e.nsb, sta |-> e.sta,
                bssid |-> f.buf[1].payload[2], channel |-> f.buf[1].payload[4]]>>]_vars

\* a CLOSE_CLIENT has been handled in MODE_SUGGEST for a station without
\* BSS transition support
C10_Witness ==
  \E i \in 1..Len(out) :
    /\ out[i].op = "sm_step"
    /\ out[i].from = "ASSOCIATED"
    /\ out[i].event = "E_CLOSE_CLIENT"
    /\ mode[out[i].nsb] = MODE_SUGGEST
    /\ ~bsstm[out[i].sta]
    /\ calls({"bss_tm_req"}) # <<>>

\* C2 as stated: when a CLOSED_CLIENT for a station, sent by the AP that an
\* entry in CONFIRMING has asked to close the station, is delivered to the AP
\* of that entry, the entry is given E_CLOSED_CLIENT and goes to ASSOCIATING.
C2_CloseHandshake ==
  [][\A f \in net \ net' :
       \A c \in Entries(f.dst) :
         /\ f.buf[1].type = TLV_CLOSED_CLIENT
         /\ f.buf[1].payload[1] = c.addr
         /\ c.STEERING_state = "CONFIRMING"
         /\ c.remote_bssid = f.src
         => /\ stepped("CONFIRMING", "E_CLOSED_CLIENT") # {}
            /\ \E d \in Entries(f.dst)' :
                 d.addr = c.addr /\ d.STEERING_state = "ASSOCIATING"]_vars

\* the state of the entry an AP has for a station
state_of(nsb, k) ==
  IF \E c \in Entries(nsb) : c.addr = k
    THEN (CHOOSE c \in Entries(nsb) : c.addr = k).STEERING_state
    ELSE "none"

\* the roam is done: B tracks the station as ASSOCIATED and A does not
Roamed == state_of("B", "K") = "ASSOCIATED" /\ state_of("A", "K") # "ASSOCIATED"

\* C3: in the roam, B goes to CONFIRMING and floods CLOSE_CLIENT with A as
\* target; A, given E_CLOSE_CLIENT while ASSOCIATED, goes to REJECTING,
\* blacklists the station and tells it to leave; when the station leaves
\* while A is REJECTING, A goes to REJECTED; and the association of the
\* station with B leads to B ASSOCIATED and A not ASSOCIATED, which is
\* always reached.
C3_RoamHandoff ==
  /\ <>(/\ steps(out, "IDLE", "E_PEER_IS_WORSE") # {}
        /\ state_of("B", "K") = "CONFIRMING"
        /\ \E i \in 1..Len(out) :
             /\ out[i].op = "l2_packet_send"
             /\ out[i].nsb = "B"
             /\ out[i].buf[1] = [type |-> TLV_CLOSE_CLIENT,
                                 payload |-> <<"K", "B", "A", iconf_channel("B")>>])
  /\ [][\A e \in stepped("ASSOCIATED", "E_CLOSE_CLIENT") :
          /\ state_of(e.nsb, e.sta)' = "REJECTING"
          /\ e.sta \in blacklist'[e.nsb]
          /\ Len(calls({"blacklist_add"})') = 1
          /\ Len(calls({"disassociate", "bss_tm_req"})') = 1
          /\ stas'[e.nsb][e.sta] = "leaving"]_vars
  /\ [][state_of("A", "K") = "REJECTING" /\ Leave => state_of("A", "K")' = "REJECTED"]_vars
  /\ (\E from \in STEERING_states : \E e \in steps(out, from, "E_ASSOCIATED") : e.nsb = "B")
       ~> Roamed
  /\ <>Roamed

\* the station has gone from A, which is REJECTED and has it on its
\* blacklist, to B, which is ASSOCIATED
C3_Witness ==
  /\ Roamed
  /\ state_of("A", "K") = "REJECTED"
  /\ "K" \in blacklist["A"]
  /\ steps(out, "CONFIRMING", "E_ASSOCIATED") # {}

\* the score an AP has for a station: that of its entry, or max_score, with
\* which an entry is created
score_of(nsb, k) ==
  IF \E c \in Entries(nsb) : c.addr = k
    THEN (CHOOSE c \in Entries(nsb) : c.addr = k).score
    ELSE max_score

\* the state machine steps logged by the handler that runs in the step
sm_steps == SelectSeq(out', LAMBDA e : e.op = "sm_step")

\* C11 as stated: a received SCORE that carries max_score and is compared
\* gives the entry E_PEER_LOST_CLIENT.
C11_LostScoreIsPeerLostClient ==
  [][\A f \in net \ net' :
       f.buf[1].type = TLV_SCORE /\ f.buf[1].payload[3] = max_score =>
         \A i \in 1..Len(sm_steps) :
           sm_steps[i].event # "E_DISASSOCIATED" =>
             sm_steps[i].event = "E_PEER_LOST_CLIENT"]_vars

\* C12: a received SCORE with a score other than max_score gives the entry
\* at most one event; unless that is the E_DISASSOCIATED of an entry that
\* was ASSOCIATED, it is E_PEER_IS_WORSE when the score the AP had before is
\* below the received one and E_PEER_NOT_WORSE otherwise.
C12_CompareScores ==
  [][\A f \in net \ net' :
       f.buf[1].type = TLV_SCORE /\ f.buf[1].payload[3] # max_score =>
         /\ Len(sm_steps) <= 1
         /\ \A i \in 1..Len(sm_steps) :
              /\ sm_steps[i].sta = f.buf[1].payload[1]
              /\ sm_steps[i].event # "E_DISASSOCIATED" =>
                   sm_steps[i].event =
                     IF score_of(f.dst, f.buf[1].payload[1]) < f.buf[1].payload[3]
                       THEN "E_PEER_IS_WORSE" ELSE "E_PEER_NOT_WORSE"]_vars

\* a score equal to the local one has been taken as not worse, and the entry,
\* IDLE before, is REJECTED
C12_Witness ==
  /\ net = {}
  /\ \E i \in 1..Len(out) :
       /\ out[i].op = "sm_step"
       /\ out[i].from = "IDLE"
       /\ out[i].event = "E_PEER_NOT_WORSE"
       /\ \E c \in Entries(out[i].nsb) :
            /\ c.addr = out[i].sta
            /\ c.score = compute_score(ssi_signal_at("A"))
            /\ c.STEERING_state = "REJECTED"

\* the entry an AP has for K is REJECTING or REJECTED
Rejects(nsb) == state_of(nsb, "K") \in {"REJECTING", "REJECTED"}

\* C13: with state timeouts that fire, an entry that is REJECTING or
\* REJECTED leaves these states; it leaves them for ASSOCIATING or
\* CONFIRMING, in MODE_FORCE with a call of hostapd_blacklist_rm, so that a
\* station on the blacklist is taken off it.
C13_RejectionEnds ==
  /\ \A nsb \in APs : Rejects(nsb) ~> ~Rejects(nsb)
  /\ \A nsb \in APs : ("K" \in blacklist[nsb]) ~> ("K" \notin blacklist[nsb])
  /\ [][\A nsb \in APs :
          Rejects(nsb) /\ ~Rejects(nsb)' =>
            /\ state_of(nsb, "K")' \in {"ASSOCIATING", "CONFIRMING"}
            /\ mode[nsb] = MODE_FORCE =>
                 /\ Len(SelectSeq(out', LAMBDA e : e.op = "blacklist_rm" /\ e.sta = "K")) = 1
                 /\ "K" \notin blacklist'[nsb]]_vars

\* the timeout of a REJECTED entry has taken it to ASSOCIATING and the
\* station off the blacklist
C13_Witness ==
  \E i \in 1..Len(out) :
    /\ out[i].op = "sm_step"
    /\ out[i].from = "REJECTED"
    /\ out[i].event = "E_TIMEOUT"
    /\ mode[out[i].nsb] = MODE_FORCE
    /\ state_of(out[i].nsb, "K") = "ASSOCIATING"
    /\ "K" \notin blacklist[out[i].nsb]
    /\ \E j \in 1..Len(out) : out[j].op = "blacklist_rm"

\* the configured peers of an AP other than itself, in the order of the list
peers(nsb) == SelectSeq(r0kh_list(nsb), LAMBDA a : a # own_addr(nsb))

\* the frames the last handler gave to l2_packet_send, in order
sends == calls({"l2_packet_send"})

\* C14: no frame is sent to the own address of the sending AP although the
\* peer list holds it; the frames a handler sends come in floods, each one
\* frame sent once to every other peer of the list, in the order of the list.
C14_FloodSkipsOwnAddress ==
  /\ \A nsb \in APs : \E i \in 1..Len(r0kh_list(nsb)) : r0kh_list(nsb)[i] = own_addr(nsb)
  /\ \A k \in 1..Len(sends) :
       LET to == peers(sends[k].nsb)
           at == ((k - 1) % Len(to)) + 1
       IN /\ sends[k].dst # own_addr(sends[k].nsb)
          /\ Len(sends) % Len(to) = 0
          /\ sends[k].dst = to[at]
          /\ sends[k].buf = sends[k - at + 1].buf
          /\ sends[k].buf[1].type \in {TLV_SCORE, TLV_CLOSE_CLIENT, TLV_CLOSED_CLIENT}

\* A, first of the three peers of its list, has flooded a CLOSED_CLIENT: one
\* copy to B and one to C
C14_Witness ==
  /\ Len(sends) = 2
  /\ sends[1].nsb = "A"
  /\ sends[1].buf[1].type = TLV_CLOSED_CLIENT
  /\ sends[1].dst = "B"
  /\ sends[2] = [sends[1] EXCEPT !.dst = "C"]

\* the frame just received and the calls and log lines of the handler
received == net \ net'
logged(txt) == \E i \in 1..Len(out) : out[i].op = "hostapd_logger" /\ out[i].txt = txt

\* the header of these received bytes is refused
bad_header(buf) ==
  \/ Len(buf) < header_len
  \/ buf[1] # tlv_magic
  \/ buf[2] > tlv_version
  \/ ntohs(SubSeq(buf, 3, 4)) > Len(buf)

\* C15: a received frame that is shorter than the header, or whose magic is
\* not 0x30, or whose version is above 1, or whose length field is above the
\* number of bytes received, changes no entry, no timer, no station and no
\* blacklist, makes no call other than the line of the log, and no frame is
\* sent.
C15_BadHeaderDropped ==
  /\ tlv_magic = 48 /\ tlv_version = 1 /\ header_len = 6
  /\ [][\A f \in received :
          bad_header(f.buf) =>
            /\ UNCHANGED <<clients, stas, blacklist, mode, bsstm>>
            /\ net' = {}
            /\ Len(out') = 1
            /\ out'[1].op = "hostapd_logger"
            /\ out'[1].txt \in {"Dropping short message", "Dropping invalid message"}]_vars

\* frames of each of the four kinds can be sent, and one has been dropped
C15_Witness ==
  /\ \E buf \in rx_frames : Len(buf) < header_len
  /\ \E buf \in rx_frames : Len(buf) >= header_len /\ buf[1] # tlv_magic
  /\ \E buf \in rx_frames : Len(buf) >= header_len /\ buf[2] > tlv_version
  /\ \E buf \in rx_frames : Len(buf) >= header_len /\ ntohs(SubSeq(buf, 3, 4)) > Len(buf)
  /\ net = {}
  /\ logged("Dropping invalid message")
  /\ clients["A"][1].STEERING_state = "ASSOCIATED"

\* the least length of the payload of a TLV of this type
min_tlv_len(tlv_type) ==
  CASE tlv_type = TLV_SCORE -> score_len
    [] tlv_type = TLV_CLOSE_CLIENT -> close_len
    [] tlv_type = TLV_CLOSED_CLIENT -> closed_len
    [] OTHER -> 0

\* from offset pos on, the frame holds a TLV whose header is cut short or
\* whose length is below the least one of its type
RECURSIVE truncated_tlv(_, _, _)
truncated_tlv(buf, packet_len, pos) ==
  IF pos >= packet_len THEN FALSE
  ELSE IF packet_len - pos < 2 THEN TRUE
  ELSE IF buf[pos + 2] < min_tlv_len(buf[pos + 1]) THEN TRUE
  ELSE truncated_tlv(buf, packet_len, pos + 2 + buf[pos + 2])

\* C16: a received frame with a good header that holds a truncated TLV
\* changes no entry and gives no event to a state machine, also when TLVs
\* that are whole come before the truncated one.
C16_TruncatedTlvNoChange ==
  [][\A f \in received :
       ~bad_header(f.buf) /\ truncated_tlv(f.buf, ntohs(SubSeq(f.buf, 3, 4)), header_len) =>
         /\ UNCHANGED clients
         /\ sm_steps = <<>>]_vars

\* C17: the length field of every frame a writer has put on the medium is
\* the length of the frame less two.
C17_TotalLengthLessTwo ==
  \A f \in net :
    f.src \in APs => ntohs(SubSeq(f.buf, 3, 4)) = Len(f.buf) - 2

\* the entries of an AP after receive has handled these TLVs one by one
handled(nsb, tlvs) == receive(nsb_of(nsb), tlvs)

\* the frames the writers build, with the TLV each is built from
written ==
  {[tlv |-> tlv, sn |-> sn, buf |-> wpabuf(sn, tlv)] :
     sn \in SNs,
     tlv \in {put_score(sta, bssid, score, msecs) :
                sta \in {"K", "L"}, bssid \in APs,
                score \in {compute_score(-30), compute_score(-40), compute_score(-300)},
                msecs \in {0, 1000, 16909060}}
          \cup {put_close_client(sta, bssid, remote_bssid, iconf_channel(bssid)) :
                  sta \in {"K", "L"}, bssid \in APs, remote_bssid \in {ZeroMac, "A", "B"}}
          \cup {put_closed_client(sta, bssid) : sta \in {"K", "L"}, bssid \in APs}}

\* what the parsers read of the TLV at offset pos of a frame
parsed_at(buf, pos) ==
  LET h == parse_tlv_header(buf_at(buf, pos), Len(buf) - pos)
      body == buf_at(buf, pos + 2)
  IN CASE h.tlv_type = TLV_SCORE ->
            LET t == parse_score(body, h.tlv_len)
            IN put_score(t.sta, t.bssid, t.score, t.association_msecs)
       [] h.tlv_type = TLV_CLOSE_CLIENT ->
            LET t == parse_close_client(body, h.tlv_len)
            IN put_close_client(t.sta, t.bssid, t.target_bssid, t.channel)
       [] h.tlv_type = TLV_CLOSED_CLIENT ->
            LET t == parse_closed_client(body, h.tlv_len)
            IN put_closed_client(t.sta, t.target_bssid)

\* the TLVs the parsers read of a frame that is a header and one TLV, or <<>>
parsed(buf) ==
  LET h == parse_header(buf, Len(buf))
  IN IF /\ h.num_read = header_len
        /\ h.magic = tlv_magic /\ h.version = tlv_version
        /\ h.packet_len = Len(buf)
        /\ h.packet_len = header_len + 2 + buf[header_len + 2]
        /\ buf[header_len + 2] = min_tlv_len(buf[header_len + 1])
       THEN <<parsed_at(buf, header_len)>>
       ELSE <<>>

\* C18: a frame built by a writer and given to receive is accepted, and the
\* handler of its TLV is called once, with the values the writer was given,
\* and no other handler: the entries and the calls are those of the TLV
\* handled alone.  The fields are in network byte order, and a SCORE TLV
\* starts with the bytes 0x00 0x12.
C18_RoundTrip ==
  /\ \A w \in written :
       /\ w.tlv.type = TLV_SCORE =>
            /\ SubSeq(w.buf, header_len + 1, header_len + 2) = <<0, 18>>
            /\ Len(w.buf) = header_len + 2 + 18
            /\ w.buf[21] * 256 + w.buf[22] = w.tlv.payload[3]
            /\ ((w.buf[23] * 256 + w.buf[24]) * 256 + w.buf[25]) * 256 + w.buf[26]
                 = w.tlv.payload[4]
       /\ w.buf[5] * 256 + w.buf[6] = w.sn
       /\ parsed(w.buf) = <<w.tlv>>
  /\ [][\A f \in received :
          f.src \in APs =>
            \E w \in written :
              /\ w.buf = f.buf
              /\ clients'[f.dst] = handled(f.dst, <<w.tlv>>).clients
              /\ out' = handled(f.dst, <<w.tlv>>).out]_vars

\* a SCORE with a score and a time of more than one byte is written, and a
\* SCORE for a station A did not know has been received: A has made the
\* entry, with the sender and the time of the frame
C18_Witness ==
  /\ \E w \in written :
       w.tlv = put_score("L", "B", compute_score(-300), 16909060) /\ w.sn = 258
  /\ net = {}
  /\ \E i \in 1..Len(out) : out[i].op = "sm_step" /\ out[i].sta = "L"
  /\ \E c \in Entries("A") :
       /\ c.addr = "L"
       /\ c.remote_bssid = "B"
       /\ c.remote_time = local_t(0)
       /\ c.STEERING_state = "REJECTED"

\* the TLVs of tlv_S, tlv_L and tlv_C
known_tlvs ==
  {put_score("K", "B", compute_score(-50), 1000),
   put_score("L", "B", compute_score(-30), 0),
   put_close_client("K", "B", "A", iconf_channel("B"))}

\* the frames of a known TLV, a TLV of unknown type and a known TLV
unknown_between ==
  {[before |-> before, after |-> after,
    buf |-> raw_frame(tlv_magic, tlv_version,
                      wpabuf_put_tlv(<<>>, before) \o unknown
                        \o wpabuf_put_tlv(<<>>, after))] :
     before \in known_tlvs, after \in known_tlvs, unknown \in tlv_unknown}

\* the calls of the last handler other than the lines of its own log
calls_made == SelectSeq(out, LAMBDA e : e.op # "hostapd_logger")

\* C19: a frame with a good header that holds a known TLV, a TLV of unknown
\* type and a second known TLV is handled as the two known TLVs in their
\* order are: the same entries and the same calls in the same order.  The
\* unknown TLV, skipped by its length, adds one line to the log and nothing
\* else, also when its payload reads as a TLV.
C19_UnknownTlvSkipped ==
  [][\A f \in received : \A w \in unknown_between :
       f.buf = w.buf =>
         /\ clients'[f.dst] = handled(f.dst, <<w.before, w.after>>).clients
         /\ calls_made' = handled(f.dst, <<w.before, w.after>>).out
         /\ Len(SelectSeq(out', LAMBDA e : e.op = "hostapd_logger")) = 1
         /\ logged("Dropping unknown tlv type")']_vars

\* a SCORE for L, a TLV of unknown type and a SCORE for K have come in one
\* frame: the state machine of L has stepped, the unknown TLV has been
\* logged, and then the state machine of K has stepped
C19_Witness ==
  \E i, j, k \in 1..Len(out) :
    /\ i < j /\ j < k
    /\ out[i].op = "sm_step" /\ out[i].sta = "L"
    /\ out[j].op = "hostapd_logger" /\ out[j].txt = "Dropping unknown tlv type"
    /\ out[k].op = "sm_step" /\ out[k].sta = "K"

\* the SCORE TLVs among these calls of l2_packet_send or frames
scores_in(frames) ==
  {frames[k].buf[1] : k \in {j \in 1..Len(frames) : frames[j].buf[1].type = TLV_SCORE}}

\* C20: no SCORE a handler sends, and none on the medium, carries max_score;
\* for an entry whose score is max_score, do_flood_score and the flood timer
\* callback send nothing, and they send one SCORE with the score of the
\* entry once a probe or an association has set it.
C20_NoMaxScoreFlooded ==
  /\ \A tlv \in scores_in(sends) : tlv.payload[3] # max_score
  /\ \A f \in net : f.buf[1].type = TLV_SCORE => f.buf[1].payload[3] # max_score
  /\ \A nsb \in APs : \A i \in 1..Len(clients[nsb]) :
       LET m == client_at(nsb_of(nsb), i)
           sent == SelectSeq(do_flood_score(m).out, LAMBDA e : e.op = "l2_packet_send")
       IN /\ flood_score(m).out = do_flood_score(m).out
          /\ IF m.c.score = max_score
               THEN do_flood_score(m) = m
               ELSE /\ Len(sent) = Len(peers(nsb))
                    /\ \A tlv \in scores_in(sent) : tlv.payload[3] = m.c.score

\* the entry of A has left ASSOCIATED for REJECTING: its score is max_score
\* and the station is still there, B has a score for the station, and the
\* last handler has sent no frame
C20_Witness ==
  /\ \E c \in Entries("A") :
       /\ c.STEERING_state = "REJECTING"
       /\ c.sta # NULL
       /\ c.score = max_score
  /\ \E c \in Entries("B") : c.score # max_score
  /\ sends = <<>>

\* C21: the association of a station whose entry was IDLE, CONFIRMING or
\* ASSOCIATING, or has just been made, leaves the entry ASSOCIATED with the
\* station linked, the score |rssi|, no remote BSSID and no remote time, the
\* association time now, no probe timer, the flood timer armed, and the
\* handler has flooded one SCORE of the station, once to each peer, and
\* nothing else.
C21_Association ==
  [][\A from \in {"IDLE", "CONFIRMING", "ASSOCIATING"} :
       \A e \in stepped(from, "E_ASSOCIATED") :
         /\ \E c \in Entries(e.nsb)' :
              /\ c.addr = e.sta
              /\ c.STEERING_state = "ASSOCIATED"
              /\ c.sta = e.sta
              /\ c.score = abs(ssi_signal_at(e.nsb))
              /\ c.remote_bssid = ZeroMac
              /\ c.remote_time = 0
              /\ c.association_time = now
              /\ ~armed(c, "probe_timeout")
              /\ armed(c, "flood_score")
         /\ Len(sends') = Len(peers(e.nsb))
         /\ \A k \in 1..Len(sends') :
              /\ sends'[k].dst = peers(e.nsb)[k]
              /\ sends'[k].buf = <<put_score(e.sta, conf_bssid(e.nsb),
                                             abs(ssi_signal_at(e.nsb)), 0)>>]_vars

\* a station has associated with an AP whose entry for it was ASSOCIATING,
\* and with it the entry has become ASSOCIATED
C21_Witness ==
  \E e \in steps(out, "ASSOCIATING", "E_ASSOCIATED") :
    /\ state_of(e.nsb, e.sta) = "ASSOCIATED"
    /\ Len(sends) = 2

\* the entry an AP has for a station
entry_of(nsb, k) == CHOOSE c \in Entries(nsb) : c.addr = k

known(nsb) == {c.addr : c \in Entries(nsb)}

\* C23: an AP has one entry per address and loses none.  An entry is made
\* only by a received SCORE for its address, by the association of the
\* station, or else by a probe: then it is IDLE with the score of the probe
\* and the probe timer armed, and the handler has made no call.  For a
\* station an AP has no entry for, a probe to another BSSID, a CLOSE_CLIENT
\* and a CLOSED_CLIENT make none.
C23_EntryCreation ==
  /\ \A nsb \in APs : Cardinality(known(nsb)) = Len(clients[nsb])
  /\ \A nsb \in APs : \A sta \in {"K", "L"} \ known(nsb) : \A bssid \in APs :
       /\ bssid # conf_bssid(nsb) =>
            probe_req_cb(nsb_of(nsb), sta, bssid, ssi_signal_at(nsb)) = nsb_of(nsb)
       /\ bssid = conf_bssid(nsb) =>
            Len(probe_req_cb(nsb_of(nsb), sta, bssid, ssi_signal_at(nsb)).clients)
              = Len(clients[nsb]) + 1
       /\ \A target \in APs :
            /\ receive_close_client(nsb_of(nsb), sta, bssid, target, iconf_channel(bssid))
                 = nsb_of(nsb)
            /\ receive_closed_client(nsb_of(nsb), sta, target) = nsb_of(nsb)
  /\ [][\A nsb \in APs :
          /\ known(nsb) \subseteq known(nsb)'
          /\ \A k \in known(nsb)' \ known(nsb) :
               \/ \E f \in received :
                    /\ f.dst = own_addr(nsb)
                    /\ \E i \in 1..Len(f.buf) :
                         f.buf[i].type = TLV_SCORE /\ f.buf[i].payload[1] = k
               \/ /\ received = {}
                  /\ stepped("IDLE", "E_ASSOCIATED") # {}
                  /\ stas'[nsb][k] = "assoc"
               \/ /\ received = {}
                  /\ out' = <<>>
                  /\ UNCHANGED stas
                  /\ entry_of(nsb, k)'.STEERING_state = "IDLE"
                  /\ entry_of(nsb, k)'.sta = NULL
                  /\ entry_of(nsb, k)'.score = compute_score(ssi_signal_at(nsb))
                  /\ armed(entry_of(nsb, k)', "probe_timeout")]_vars

\* B has an entry made by a SCORE of A, where the station is associated;
\* B has not heard the station
C23_Witness ==
  /\ state_of("A", "K") = "ASSOCIATED"
  /\ Len(clients["B"]) = 1
  /\ entry_of("B", "K").remote_bssid = "A"
  /\ entry_of("B", "K").score = max_score
  /\ entry_of("B", "K").sta = NULL

\* C24: an entry has at most one timeout of each kind registered: one
\* flood_score, one client_timeout and one probe_timeout
C24_OneTimerPerKind ==
  \A nsb \in APs : \A c \in Entries(nsb) : \A h \in Handlers :
    c.timeouts[h] <= 1

\* C25: an entry never has timeouts of two different kinds registered
C25_OneTimerKind ==
  \A nsb \in APs : \A c \in Entries(nsb) :
    Cardinality({h \in Handlers : armed(c, h)}) <= 1

\* C25 as the code keeps it: the flood timer is never registered together
\* with another, and the state timeout and the probe timer are registered
\* together only for an entry that is REJECTING or REJECTED
C25_TimerKindsAmended ==
  \A nsb \in APs : \A c \in Entries(nsb) :
    /\ armed(c, "flood_score") =>
         ~armed(c, "client_timeout") /\ ~armed(c, "probe_timeout")
    /\ armed(c, "client_timeout") /\ armed(c, "probe_timeout") =>
         c.STEERING_state \in {"REJECTING", "REJECTED"}

\* a station that was closed and has left: its entry is REJECTED with the
\* state timeout and the probe timer registered; another entry is
\* ASSOCIATED with the flood timer alone
C25_Witness ==
  /\ \E nsb \in APs : \E c \in Entries(nsb) :
       /\ c.STEERING_state = "REJECTED"
       /\ c.sta = NULL
       /\ armed(c, "client_timeout")
       /\ armed(c, "probe_timeout")
  /\ \E nsb \in APs : \E c \in Entries(nsb) :
       /\ c.STEERING_state = "ASSOCIATED"
       /\ {h \in Handlers : armed(c, h)} = {"flood_score"}

\* C29: an AP that has a station ASSOCIATED since association_time stays
\* ASSOCIATED when it receives a SCORE for the station whose adjusted time
\* (now less the sender's time since association) is before association_time
C29_StaleScoreKeepsAssociated ==
  [][\A f \in received : \A nsb \in APs : \A k \in known(nsb) :
       /\ f.dst = own_addr(nsb)
       /\ f.buf[1].type = TLV_SCORE
       /\ f.buf[1].payload[1] = k
       /\ client_is_associated([c |-> entry_of(nsb, k)])
       /\ local_t(f.buf[1].payload[4]) < entry_of(nsb, k).association_time
       => state_of(nsb, k)' = "ASSOCIATED"]_vars

\* C30: an AP that has a station ASSOCIATED and receives a SCORE for it from
\* a BSSID other than remote_bssid, with an adjusted time after remote_time,
\* dispatches E_DISASSOCIATED from ASSOCIATED and then the event of the score
\* comparison, E_PEER_IS_WORSE or E_PEER_NOT_WORSE; afterwards the flood
\* timer is stopped, sta is NULL, remote_bssid is the sender and remote_time
\* the adjusted time
C30_DisassociatedThenCompared ==
  [][\A f \in received : \A nsb \in APs : \A k \in known(nsb) :
       /\ f.dst = own_addr(nsb)
       /\ f.buf[1].type = TLV_SCORE
       /\ f.buf[1].payload[1] = k
       /\ client_is_associated([c |-> entry_of(nsb, k)])
       /\ f.buf[1].payload[2] # entry_of(nsb, k).remote_bssid
       /\ entry_of(nsb, k).remote_time < local_t(f.buf[1].payload[4])
       => /\ Len(sm_steps) = 2
          /\ sm_steps[1].event = "E_DISASSOCIATED"
          /\ sm_steps[1].from = "ASSOCIATED"
          /\ sm_steps[1].to = "IDLE"
          /\ sm_steps[2].event \in {"E_PEER_IS_WORSE", "E_PEER_NOT_WORSE"}
          /\ sm_steps[2].from = "IDLE"
          /\ ~armed(entry_of(nsb, k)', "flood_score")
          /\ entry_of(nsb, k)'.sta = NULL
          /\ entry_of(nsb, k)'.remote_bssid = f.buf[1].payload[2]
          /\ entry_of(nsb, k)'.remote_time = local_t(f.buf[1].payload[4])]_vars

\* C26: once net_steering_deinit has run for a BSS, the BSS has no context
\* in the list, no entry, no open socket and no storage, and the event loop
\* holds no timeout for an entry it has released: client_delete had
\* cancelled the three timeouts of each entry when it unlinked it
C26_DeinitLeavesNothing ==
  \A ap \in APs : hapd[ap].deinit =>
    /\ ~in_list(nsb_list, ap)
    /\ clients[ap] = <<>>
    /\ hapd[ap].eloop = 0
    /\ ~hapd[ap].control
    /\ ~hapd[ap].nsb

\* net_steering_deinit has released an entry of A and cancelled a timeout
\* of it, while B has its context and an entry with a timeout registered
C26_Witness ==
  /\ hapd["A"].deinit
  /\ hapd["A"].freed = 1
  /\ hapd["A"].cancelled >= 1
  /\ in_list(nsb_list, "B")
  /\ \E c \in Entries("B") : timeouts_of(c) >= 1

\* a BSS for which net_steering_init has returned 0 without a context
inert(ap) ==
  /\ hapd[ap].init /\ hapd[ap].ret = 0 /\ ~hapd[ap].deinit
  /\ ~in_list(nsb_list, ap)

\* C27: net_steering_init for a BSS with no mode, with the mode off, or
\* with no key holders returns 0 and registers no context, no probe callback
\* and no socket; an association or a disassociation that hostapd reports
\* for such a BSS afterwards changes no registry, sends no frame, makes no
\* call and does not fault
C27_InertInit ==
  /\ \A ap \in APs : \A net_steeering_mode \in net_steeering_modes :
       \A r0kh_list_set, os_zalloc_ok, l2_packet_init_ok \in BOOLEAN :
       \A null_deref \in Undefined :
         net_steeering_mode \in {NULL, "off"} \/ ~r0kh_list_set =>
           net_steering_init(process, ap, net_steeering_mode, r0kh_list_set, os_zalloc_ok,
                             l2_packet_init_ok, null_deref)
             = returns(process, ap, 0)
  /\ \A ap \in APs : inert(ap) =>
       clients[ap] = <<>> /\ ~hapd[ap].probereq_cb /\ ~hapd[ap].control /\ ~hapd[ap].nsb
  /\ [][\A ap \in APs : inert(ap) /\ stas'[ap] # stas[ap] =>
          /\ UNCHANGED <<clients, blacklist, net, nsb_list>>
          /\ out' = <<>>
          /\ ~hapd'[ap].fault]_vars

\* C28: net_steering_init whose l2_packet_init fails returns -1 and leaves
\* all else as it was: no context in the list, no probe callback, no storage
\* (whatever reading through NULL comes to); and no call of
\* net_steering_init ends in a fault
C28_L2OpenFailure ==
  /\ \A ap \in APs : ~hapd[ap].init =>
       \A net_steeering_mode \in {"suggest", "force"} : \A null_deref \in Undefined :
         net_steering_init(process, ap, net_steeering_mode, TRUE, TRUE, FALSE, null_deref)
           = returns(process, ap, -1)
  /\ [][\A ap \in APs : ~hapd[ap].init /\ hapd'[ap].init =>
          /\ ~hapd'[ap].fault
          /\ hapd'[ap].ret = -1 =>
               /\ nsb_list' = nsb_list
               /\ ~hapd'[ap].nsb /\ ~hapd'[ap].probereq_cb /\ ~hapd'[ap].control]_vars

\* the entry a SCORE for k meets at the AP: the one it has, or a new one
entry_met(nsb, k) == IF k \in known(nsb) THEN entry_of(nsb, k) ELSE client_create(k)

\* C31: a received SCORE changes remote_bssid or remote_time of the entry
\* only when its sender is not remote_bssid and its adjusted time is after
\* remote_time; from another BSSID and not after remote_time it dispatches
\* no event and leaves the entry as it was; from remote_bssid it dispatches
\* the one event of the score comparison and leaves remote_time
C31_RemoteUpdate ==
  [][\A f \in received : \A nsb \in APs :
       f.dst = own_addr(nsb) /\ f.buf[1].type = TLV_SCORE =>
         LET k == f.buf[1].payload[1]
             sender == f.buf[1].payload[2]
             adjusted == local_t(f.buf[1].payload[4])
             before == entry_met(nsb, k)
             after == entry_of(nsb, k)'
         IN /\ after.remote_bssid # before.remote_bssid
                 \/ after.remote_time # before.remote_time
               => sender # before.remote_bssid /\ before.remote_time < adjusted
            /\ sender # before.remote_bssid /\ ~(before.remote_time < adjusted)
               => sm_steps = <<>> /\ after = before
            /\ sender = before.remote_bssid
               => /\ Len(sm_steps) = 1
                  /\ sm_steps[1].event \in {"E_PEER_IS_WORSE", "E_PEER_NOT_WORSE"}
                  /\ after.remote_time = before.remote_time]_vars

\* A has taken a SCORE of B for the station of its one entry, which names
\* no remote BSSID, and no event was dispatched: the adjusted time was not
\* after remote_time
C31_Witness ==
  /\ net = {}
  /\ out = <<>>
  /\ Len(clients["A"]) = 1
  /\ entry_of("A", "K").remote_bssid = ZeroMac
  /\ entry_of("A", "K").remote_time = 0

\* C32: an entry that is ASSOCIATED has remote_bssid all-zero and
\* remote_time zero
C32_AssociatedHasNoRemote ==
  \A nsb \in APs : \A c \in Entries(nsb) :
    c.STEERING_state = "ASSOCIATED" => c.remote_bssid = ZeroMac /\ c.remote_time = 0

\* the station has gone from A to B: A holds B as the remote owner, and B,
\* which had heard of the station at A, is ASSOCIATED since time 2 with the
\* remote owner cleared
C32_Witness ==
  /\ state_of("A", "K") = "IDLE"
  /\ entry_of("A", "K").remote_bssid = "B"
  /\ state_of("B", "K") = "ASSOCIATED"
  /\ entry_of("B", "K").association_time = 2
  /\ entry_of("B", "K").remote_bssid = ZeroMac
  /\ entry_of("B", "K").remote_time = 0

C34_CloseClientWhileAssociated ==
  [][\A e \in stepped("ASSOCIATED", "E_CLOSE_CLIENT") :
       LET asks == calls({"disassociate", "bss_tm_req"})'
           done == calls({"blacklist_add", "disassociate", "bss_tm_req"})'
       IN /\ Len(asks) = 1
          /\ asks[1].nsb = e.nsb /\ asks[1].sta = e.sta
          /\ asks[1].op = IF mode[e.nsb] = MODE_SUGGEST \/ bsstm[e.sta]
                            THEN "bss_tm_req" ELSE "disassociate"
          /\ mode[e.nsb] = MODE_FORCE =>
               Len(done) = 2 /\ done[1].op = "blacklist_add" /\ done[2] = asks[1]
          /\ mode[e.nsb] = MODE_SUGGEST => done = asks
          /\ e.to = "REJECTING"
          /\ state_of(e.nsb, e.sta)' = "REJECTING"
          /\ armed(entry_of(e.nsb, e.sta)', "client_timeout")
          /\ ~armed(entry_of(e.nsb, e.sta)', "flood_score")]_vars

\* a CLOSE_CLIENT has been handled in MODE_FORCE for an associated station
\* without BSS transition: the station is put on the blacklist and
\* disassociated, and the entry is REJECTING
C34_Witness ==
  \E i \in 1..Len(out) :
    /\ out[i].op = "sm_step"
    /\ out[i].from = "ASSOCIATED"
    /\ out[i].event = "E_CLOSE_CLIENT"
    /\ mode[out[i].nsb] = MODE_FORCE
    /\ ~bsstm[out[i].sta]
    /\ calls({"blacklist_add", "disassociate"}) # <<>>
    /\ Len(calls({"disassociate"})) = 1
    /\ state_of(out[i].nsb, out[i].sta) = "REJECTING"

\* C35: E_PEER_IS_WORSE, in whichever state it finds the entry, sends one
\* frame to every peer and no other: a CLOSE_CLIENT for the station from the
\* own BSSID, to the remote_bssid of the entry, with the own channel; any
\* other event given to a CONFIRMING entry sends nothing
C35_PeerIsWorseFloodsCloseClient ==
  [][\A i \in 1..Len(sm_steps) : \A nsb \in APs : \A k \in known(nsb) :
       sm_steps[i].nsb = nsb /\ sm_steps[i].sta = k =>
         LET to == peers(nsb)
             buf == <<put_close_client(k, conf_bssid(nsb), entry_of(nsb, k)'.remote_bssid,
                                       iconf_channel(nsb))>>
         IN /\ sm_steps[i].event = "E_PEER_IS_WORSE" =>
                 sends' = [j \in 1..Len(to) |-> l2_packet_send(nsb, to[j], buf)]
            /\ sm_steps[i].from = "CONFIRMING" /\ sm_steps[i].event # "E_PEER_IS_WORSE" =>
                 sends' = <<>>]_vars

\* a REJECTED entry that holds B as the remote owner has been given
\* E_PEER_IS_WORSE: it is CONFIRMING and has sent a CLOSE_CLIENT for B to
\* each of its two peers
C35_Witness ==
  /\ \E i \in 1..Len(out) :
       /\ out[i].op = "sm_step" /\ out[i].event = "E_PEER_IS_WORSE"
       /\ out[i].from = "REJECTED" /\ out[i].to = "CONFIRMING"
  /\ Len(sends) = 2
  /\ \A j \in 1..Len(sends) :
       /\ sends[j].buf[1].type = TLV_CLOSE_CLIENT
       /\ sends[j].buf[1].payload[3] = "B"

\* C36: no handler sends a SCORE for a station from an AP whose entry for
\* the station is REJECTING or REJECTED when the handler starts and when it
\* ends
C36_NoScoreWhileRejecting ==
  [][\A nsb \in APs : \A k \in known(nsb) :
       /\ state_of(nsb, k) \in {"REJECTING", "REJECTED"}
       /\ state_of(nsb, k)' \in {"REJECTING", "REJECTED"}
       => \A j \in 1..Len(sends') :
            ~(/\ sends'[j].nsb = nsb
              /\ sends'[j].buf[1].type = TLV_SCORE
              /\ sends'[j].buf[1].payload[1] = k)]_vars

\* the offset of the first TLV of the frame whose payload runs past
\* packet_len though its length field is at least that of its type; -1 if
\* there is none before a TLV the loop stops at
RECURSIVE overrun_at(_, _, _)
overrun_at(buf, packet_len, pos) ==
  IF pos >= packet_len \/ packet_len - pos < 2 THEN -1
  ELSE IF buf[pos + 2] < min_tlv_len(buf[pos + 1]) THEN -1
  ELSE IF pos + 2 + buf[pos + 2] > packet_len THEN pos
  ELSE overrun_at(buf, packet_len, pos + 2 + buf[pos + 2])

\* C37: receive reads no byte at or after offset len of the buffer: a
\* received frame with a good header that holds a TLV whose length field is
\* at least the size of its type and whose payload runs past the end of the
\* frame leaves the entries as the TLVs before that TLV leave them, and no
\* event comes of that TLV.
C37_NoReadPastFrame ==
  [][\A f \in received :
       LET packet_len == ntohs(SubSeq(f.buf, 3, 4))
           at == overrun_at(f.buf, packet_len, header_len)
           before == receive_tlvs(nsb_of(f.dst), SubSeq(f.buf, 1, at), at, header_len)
       IN ~bad_header(f.buf) /\ at >= 0 =>
            /\ clients'[f.dst] = before.clients
            /\ sm_steps = SelectSeq(before.out, LAMBDA c : c.op = "sm_step")]_vars

\* C38: an entry that leaves ASSOCIATED by E_DISASSOCIATED, to IDLE, or by
\* E_CLOSE_CLIENT, to REJECTING, has the score max_score and no flood timer
\* when the handler ends; and a score that is max_score stays so in every
\* step but a probe or an association of the station at that AP.
C38_LeavingAssociatedLosesScore ==
  /\ max_score = 65535
  /\ [][\A e \in stepped("ASSOCIATED", "E_DISASSOCIATED") \cup stepped("ASSOCIATED", "E_CLOSE_CLIENT") :
          /\ e.to = IF e.event = "E_DISASSOCIATED" THEN "IDLE" ELSE "REJECTING"
          /\ state_of(e.nsb, e.sta)' = e.to
          /\ score_of(e.nsb, e.sta)' = max_score
          /\ ~armed(entry_of(e.nsb, e.sta)', "flood_score")]_vars
  /\ [][\A nsb \in APs : \A k \in known(nsb) :
          score_of(nsb, k) = max_score /\ score_of(nsb, k)' # max_score =>
            \/ OnAssociate(nsb, k)
            \/ \E bssid \in APs : OnProbe(nsb, k, bssid)]_vars

\* a station has left its AP, the entry went from ASSOCIATED to IDLE with
\* E_DISASSOCIATED and holds max_score, and the flood timer is not armed
C38_Witness ==
  \E i \in 1..Len(out) :
    /\ out[i].op = "sm_step"
    /\ out[i].from = "ASSOCIATED" /\ out[i].event = "E_DISASSOCIATED"
    /\ state_of(out[i].nsb, out[i].sta) = "IDLE"
    /\ score_of(out[i].nsb, out[i].sta) = max_score
    /\ ~armed(entry_of(out[i].nsb, out[i].sta), "flood_score")

\* a CLOSE_CLIENT or CLOSED_CLIENT that names another BSSID than that of the
\* AP, or a station the AP has no entry for, leaves the context as it is:
\* no entry changes and no call is made
close_not_for_us ==
  \A nsb \in APs : \A sta \in {"K", "L"} : \A bssid \in APs :
    \A target \in {ZeroMac, "A", "B", "C"} :
      target # conf_bssid(nsb) \/ sta \notin known(nsb) =>
        /\ receive_close_client(nsb_of(nsb), sta, bssid, target, iconf_channel(bssid))
             = nsb_of(nsb)
        /\ receive_closed_client(nsb_of(nsb), sta, target) = nsb_of(nsb)

\* the handler of the step has received a CLOSE_CLIENT for station k that
\* names the BSSID of nsb
close_client_received(nsb, k) ==
  \E f \in received :
    /\ f.dst = own_addr(nsb)
    /\ \E i \in 1..Len(f.buf) :
         /\ f.buf[i].type = TLV_CLOSE_CLIENT
         /\ f.buf[i].payload[1] = k
         /\ f.buf[i].payload[3] = conf_bssid(nsb)

C40_NoContextNoEffect ==
  [][\A ap \in APs :
       inert(ap) /\ nsb_list # <<>> /\ stas'[ap] # stas[ap] =>
         /\ UNCHANGED <<clients, mode, blacklist, net, nsb_list, hapd>>
         /\ out' = <<>>]_vars
====
